---------------------------- MODULE Spec2Model ----------------------------
(***************************************************************************)
(* ProperView: the listings page (URL-backed filter state, derived        *)
(* filtering, view-mode / selection coordination) and the agent property  *)
(* API handlers, as state machines.                                        *)
(*                                                                         *)
(* Strings are sequences of one-character strings.  A query string is a   *)
(* sequence of tokens: parameter names ("location", ...), the separators  *)
(* "&" and "=", the characters of the values and the escapes "+", "%2B",  *)
(* "%26", "%3D" that the form-urlencoded serializer produces.              *)
(***************************************************************************)
EXTENDS Integers, Sequences, FiniteSets, Bags, TLC

(***************************************************************************)
(* Bounds of the model                                                     *)
(***************************************************************************)
\* longest property list handed to the listings page
MaxProps == 2
\* most router.replace navigations in flight at once
MaxPending == 1
\* most API requests in flight at once
MaxRequests == 2

(***************************************************************************)
(* JavaScript strings and numbers                                          *)
(***************************************************************************)
\* the element of a one-element set; The({F(v) : v \in {e}}) evaluates e once
\* and hands its value to F
The(S) == CHOOSE x \in S : TRUE

\* the value URLSearchParams.get returns for a parameter that is absent
JsNull == <<"null">>

JsNaN == [nan |-> TRUE, n |-> 0]

JsNum(n) == [nan |-> FALSE, n |-> n]

\* the value of an unset state cell (useState() with no argument)
Undefined == [k |-> "undefined", n |-> 0]

DigitChars == <<"0", "1", "2", "3", "4", "5", "6", "7", "8", "9">>

IsDigit(c) == \E i \in 1..10 : DigitChars[i] = c

DigitVal(c) == (CHOOSE i \in 1..10 : DigitChars[i] = c) - 1

IsSpace(c) == c = " "

ToLowerChar(c) == IF c = "A" THEN "a" ELSE IF c = "B" THEN "b" ELSE c

toLowerCase(s) == [i \in 1..Len(s) |-> ToLowerChar(s[i])]

RECURSIVE trimStart(_)
trimStart(s) == IF s # <<>> /\ IsSpace(Head(s)) THEN trimStart(Tail(s)) ELSE s

RECURSIVE trimEnd(_)
trimEnd(s) ==
  IF s # <<>> /\ IsSpace(s[Len(s)]) THEN trimEnd(SubSeq(s, 1, Len(s) - 1)) ELSE s

trim(s) == trimEnd(trimStart(s))

includes(s, sub) ==
  \E i \in 0..(Len(s) - Len(sub)) : SubSeq(s, i + 1, i + Len(sub)) = sub

\* the value of a run of decimal digits
RECURSIVE DigitsValue(_)
DigitsValue(s) ==
  IF s = <<>> THEN 0
  ELSE 10 * DigitsValue(SubSeq(s, 1, Len(s) - 1)) + DigitVal(s[Len(s)])

\* the longest prefix of s made of digits
RECURSIVE DigitPrefix(_)
DigitPrefix(s) ==
  IF s # <<>> /\ IsDigit(Head(s)) THEN <<Head(s)>> \o DigitPrefix(Tail(s)) ELSE <<>>

\* Number(x) for a string or null: whitespace is trimmed, '' and null are 0,
\* an optionally signed run of digits is its value, anything else is NaN
Number(x) ==
  IF x = JsNull THEN JsNum(0)
  ELSE LET t == trim(x)
           signed == t # <<>> /\ Head(t) \in {"-", "+"}
           body == IF signed THEN Tail(t) ELSE t
       IN  IF t = <<>> THEN JsNum(0)
           ELSE IF body # <<>> /\ DigitPrefix(body) = body
                THEN JsNum(IF signed /\ Head(t) = "-"
                           THEN 0 - DigitsValue(body) ELSE DigitsValue(body))
                ELSE JsNaN

\* parseInt(x): leading whitespace is skipped, then an optionally signed run
\* of digits is read and the rest ignored; NaN when no digit is read
parseInt(x) ==
  LET t == trimStart(x)
      signed == t # <<>> /\ Head(t) \in {"-", "+"}
      body == IF signed THEN Tail(t) ELSE t
      ds == DigitPrefix(body)
  IN  IF ds = <<>> THEN JsNaN
      ELSE JsNum(IF signed /\ Head(t) = "-" THEN 0 - DigitsValue(ds)
                 ELSE DigitsValue(ds))

\* v || 0 for a number v
OrZero(v) == IF v.nan \/ v.n = 0 THEN 0 ELSE v.n

\* Math.max(0, v) for an integer v
MathMax0(v) == IF v > 0 THEN v ELSE 0

\* String(n) for an integer n
RECURSIVE NatToString(_)
NatToString(n) ==
  IF n < 10 THEN <<DigitChars[n + 1]>>
  ELSE NatToString(n \div 10) \o <<DigitChars[(n % 10) + 1]>>

String(n) == IF n < 0 THEN <<"-">> \o NatToString(0 - n) ELSE NatToString(n)

(***************************************************************************)
(* URLSearchParams: a list of name/value pairs                             *)
(***************************************************************************)
\* the form-urlencoded serializer, one character at a time
EncodeChar(c) ==
  CASE c = " " -> "+"
    [] c = "+" -> "%2B"
    [] c = "&" -> "%26"
    [] c = "=" -> "%3D"
    [] OTHER -> c

\* the form-urlencoded parser, one token at a time
DecodeChar(t) ==
  CASE t = "+" -> " "
    [] t = "%2B" -> "+"
    [] t = "%26" -> "&"
    [] t = "%3D" -> "="
    [] OTHER -> t

Encode(s) == [i \in 1..Len(s) |-> EncodeChar(s[i])]

Decode(s) == [i \in 1..Len(s) |-> DecodeChar(s[i])]

\* the pieces of s between occurrences of sep
RECURSIVE SplitOn(_, _)
SplitOn(s, sep) ==
  IF \E i \in 1..Len(s) : s[i] = sep
  THEN The({<<SubSeq(s, 1, i - 1)>>
              \o The({SplitOn(rest, sep) : rest \in {SubSeq(s, i + 1, Len(s))}}) :
            i \in {j \in 1..Len(s) :
                     s[j] = sep /\ \A k \in 1..(j - 1) : s[k] # sep}})
  ELSE <<s>>

\* one name=value piece of a query string
ParsePair(piece) ==
  IF \E i \in 1..Len(piece) : piece[i] = "="
  THEN LET i == CHOOSE j \in 1..Len(piece) :
                  piece[j] = "=" /\ \A k \in 1..(j - 1) : piece[k] # "="
       IN  [name |-> Decode(SubSeq(piece, 1, i - 1)),
            value |-> Decode(SubSeq(piece, i + 1, Len(piece)))]
  ELSE [name |-> Decode(piece), value |-> <<>>]

\* new URLSearchParams(query)
URLSearchParams(query) ==
  The({[i \in 1..Len(pieces) |-> ParsePair(pieces[i])] :
       pieces \in {SelectSeq(The({SplitOn(q, "&") : q \in {query}}),
                             LAMBDA p : p # <<>>)}})

\* params.get(name): the first value of that name, or null
USPGet(params, name) ==
  The({IF \E i \in 1..Len(ps) : ps[i].name = <<name>>
       THEN ps[CHOOSE i \in 1..Len(ps) :
                 ps[i].name = <<name>>
                 /\ \A k \in 1..(i - 1) : ps[k].name # <<name>>].value
       ELSE JsNull :
       ps \in {params}})

\* params.delete(name)
USPDelete(params, name) ==
  The({SelectSeq(ps, LAMBDA p : p.name # <<name>>) : ps \in {params}})

\* params.set(name, value): the first pair of that name takes the value and the
\* others are removed; a new pair is appended when there is none
USPSet(params, name, value) ==
  The({IF \E i \in 1..Len(ps) : ps[i].name = <<name>>
       THEN LET first == CHOOSE i \in 1..Len(ps) :
                           ps[i].name = <<name>>
                           /\ \A k \in 1..(i - 1) : ps[k].name # <<name>>
                pair(i) == IF i = first THEN [name |-> <<name>>, value |-> v]
                           ELSE ps[i]
                kept == SelectSeq([i \in 1..Len(ps) |-> i],
                                  LAMBDA i : ps[i].name # <<name>> \/ i = first)
            IN  [k \in 1..Len(kept) |-> pair(kept[k])]
       ELSE Append(ps, [name |-> <<name>>, value |-> v]) :
       ps \in {params}, v \in {value}})

\* params.toString()
RECURSIVE USPToString(_)
USPToString(params) ==
  The({IF ps = <<>> THEN <<>>
       ELSE LET p == Head(ps)
                one == Encode(p.name) \o <<"=">> \o Encode(p.value)
            IN  IF Len(ps) = 1 THEN one
                ELSE one \o <<"&">> \o USPToString(Tail(ps)) :
       ps \in {params}})


(***************************************************************************)
(* ListingsClient: filters and the query string                            *)
(***************************************************************************)
\* Filters; bathrooms is 0 where the object carries no such field
Filters(location, minPrice, maxPrice, bedrooms, bathrooms, showAllStatuses) ==
  [location |-> location, minPrice |-> minPrice, maxPrice |-> maxPrice,
   bedrooms |-> bedrooms, bathrooms |-> bathrooms,
   showAllStatuses |-> showAllStatuses]

\* x || '' for a string or null x
OrEmpty(x) == IF x = JsNull THEN <<>> ELSE x

parseFiltersFromSearchParams_NoStatus(searchParams) ==
  Filters(OrEmpty(USPGet(searchParams, "location")),
          OrZero(Number(USPGet(searchParams, "minPrice"))),
          OrZero(Number(USPGet(searchParams, "maxPrice"))),
          OrZero(Number(USPGet(searchParams, "bedrooms"))),
          0,
          FALSE)

parseFiltersFromSearchParams(searchParams) ==
  Filters(OrEmpty(USPGet(searchParams, "location")),
          OrZero(Number(USPGet(searchParams, "minPrice"))),
          OrZero(Number(USPGet(searchParams, "maxPrice"))),
          OrZero(Number(USPGet(searchParams, "bedrooms"))),
          0,
          USPGet(searchParams, "showAllStatuses") = <<"true">>)

filtersToQuery(filters) ==
  LET p0 == <<>>
      p1 == IF filters.location # <<>>
            THEN USPSet(p0, "location", filters.location) ELSE p0
      p2 == IF filters.minPrice # 0
            THEN USPSet(p1, "minPrice", String(filters.minPrice)) ELSE p1
      p3 == IF filters.maxPrice # 0
            THEN USPSet(p2, "maxPrice", String(filters.maxPrice)) ELSE p2
      p4 == IF filters.bedrooms # 0
            THEN USPSet(p3, "bedrooms", String(filters.bedrooms)) ELSE p3
      p5 == IF filters.showAllStatuses
            THEN USPSet(p4, "showAllStatuses", <<"true">>) ELSE p4
  IN  USPToString(p5)

(***************************************************************************)
(* ListingsClient: the derived visible list                                *)
(***************************************************************************)
Property(id, status, address, price, bedrooms, bathrooms, hasCoords) ==
  [id |-> id, status |-> status, address |-> address, price |-> price,
   bedrooms |-> bedrooms, bathrooms |-> bathrooms, hasCoords |-> hasCoords]

\* the callback of properties.filter, with the status test left out
KeepProperty_NoStatus(property, filters) ==
  IF trim(filters.location) # <<>>
     /\ ~includes(toLowerCase(property.address), trim(toLowerCase(filters.location)))
  THEN FALSE
  ELSE IF filters.minPrice > 0 /\ property.price < filters.minPrice THEN FALSE
  ELSE IF filters.maxPrice > 0 /\ property.price > filters.maxPrice THEN FALSE
  ELSE IF filters.bedrooms > 0 /\ property.bedrooms < filters.bedrooms THEN FALSE
  ELSE TRUE

\* the callback of properties.filter: each test returns false early
KeepProperty(property, filters) ==
  IF ~filters.showAllStatuses /\ property.status # "active" THEN FALSE
  ELSE IF trim(filters.location) # <<>>
          /\ ~includes(toLowerCase(property.address),
                       trim(toLowerCase(filters.location)))
  THEN FALSE
  ELSE IF filters.minPrice > 0 /\ property.price < filters.minPrice THEN FALSE
  ELSE IF filters.maxPrice > 0 /\ property.price > filters.maxPrice THEN FALSE
  ELSE IF filters.bedrooms > 0 /\ property.bedrooms < filters.bedrooms THEN FALSE
  ELSE TRUE

\* useMemo(() => properties.filter(...), [properties, filters])
filteredProperties(props, filters) ==
  SelectSeq(props, LAMBDA property : KeepProperty(property, filters))


(***************************************************************************)
(* State                                                                   *)
(***************************************************************************)
VARIABLES
  \* ListingsContent
  properties,           \* the properties prop
  url,                  \* window.location.search without the '?'
  filters,              \* useState filters
  visible,              \* the memoized filteredProperties
  isLoading,
  error,                \* <<>> is null, otherwise the message shown
  pending,              \* queries of the router.replace calls in flight
  parentViewMode,
  \* PropertyListings
  selectedPropertyId,
  viewMode,
  isMobile,             \* matchMedia('(max-width: 768px)').matches
  showMapOnly,
  forceSplitView,
  \* FilterBar
  localFilters,
  mobileDraftFilters,
  isBedroomDropdownOpen,
  isMobileFiltersOpen,
  \* MapView
  mapLoaded,
  markerElements,       \* property id -> whether the marker has class 'selected'
  \* history of the run
  lastCalls,            \* queries passed to router.replace by the last event
  lastApplied           \* the filters of the last filter change, <<f>> or <<>>

listingVars == <<properties, url, filters, visible, isLoading, error, pending,
                 parentViewMode>>

viewVars == <<selectedPropertyId, viewMode, isMobile, showMapOnly, forceSplitView>>

filterBarVars == <<localFilters, mobileDraftFilters, isBedroomDropdownOpen,
                   isMobileFiltersOpen>>

mapVars == <<mapLoaded, markerElements>>

traceVars == <<lastCalls, lastApplied>>

pageVars == <<listingVars, viewVars, filterBarVars, mapVars, traceVars>>

\* the agent API: cookies, database and route handlers
VARIABLES
  hasDocument,          \* typeof document !== 'undefined' where the code runs
  cookieJar,            \* document.cookie: cookie name -> encoded value
  db,                   \* prisma.property: id -> row
  requests,             \* the bag of route-handler invocations at an await
  lastResponse          \* the invocation that answered last

apiVars == <<hasDocument, cookieJar, db, requests, lastResponse>>

VARIABLES
  inquiries,        \* the inquiry table: the rows stored, each with its propertyId
  inquiryRequests,  \* the invocations of POST /api/inquiries that await the database
  inquiryResponse   \* the last answer of /api/inquiries

inquiryVars == <<inquiries, inquiryRequests, inquiryResponse>>

\* the agent pages: AuthProvider, the router and the page mounted
VARIABLES
  localStorageAgent,  \* localStorage.getItem("agent")
  isAuthenticated,    \* AuthProvider state
  user,               \* AuthProvider state
  hydrated,           \* AuthProvider state
  pathname,           \* the page that is mounted
  effectPending,      \* the mounted page's auth effect is due to run
  navigating,         \* the target of a router.push / replace not yet committed
  lastRedirect        \* the last router.push / replace an auth effect issued

authVars == <<localStorageAgent, isAuthenticated, user, hydrated, pathname,
              effectPending, navigating, lastRedirect>>

\* PropertyForm
VARIABLES
  formData,        \* useState: the fields of the form
  errors,          \* useState: field -> message
  announcement,    \* useState: the status announcement
  onSubmitCalls    \* the calls of the onSubmit prop, oldest first

formVars == <<formData, errors, announcement, onSubmitCalls>>

\* the agent dashboard page
VARIABLES
  fetchedProperties,    \* the ids of the list fetchProperties has set, in order
  dashboardProperties,  \* useState properties: the ids of the cards displayed
  deletes,              \* the handleDeleteProperty calls that await their fetch
  deleteSucceeded       \* the ids whose DELETE request was answered 204

dashboardVars == <<fetchedProperties, dashboardProperties, deletes, deleteSucceeded>>

siteVars == <<inquiryVars, authVars, formVars, dashboardVars>>

vars == <<pageVars, apiVars, siteVars>>

(***************************************************************************)
(* PropertyListings: what is rendered                                      *)
(***************************************************************************)
Sel(n) == [k |-> "number", n |-> n]

SelNaN == [k |-> "NaN", n |-> 0]

\* if (selectedPropertyId): undefined, NaN and 0 are falsy
Truthy(sel) == sel.k = "number" /\ sel.n # 0

\* the empty-state branch of ListingsContent renders no PropertyListings
Mounted(vis) == vis # <<>>

hasLocation(flt) == flt.location # <<>> /\ trim(flt.location) # <<>>

\* the content branch that is rendered, ignoring hasLocation in the split test
ContentBranch_NoLocation(flt, mobile, mode, mapOnly, split) ==
  IF mobile THEN (IF mode = "map" THEN "mobileMap" ELSE "mobileList")
  ELSE IF split THEN "split"
  ELSE IF ~hasLocation(flt) /\ mapOnly THEN "mapOnly"
  ELSE "grid"

\* the content branch that is rendered
ContentBranch(flt, mobile, mode, mapOnly, split) ==
  IF mobile THEN (IF mode = "map" THEN "mobileMap" ELSE "mobileList")
  ELSE IF hasLocation(flt) \/ split THEN "split"
  ELSE IF ~hasLocation(flt) /\ mapOnly /\ ~split THEN "mapOnly"
  ELSE "grid"

\* the branches that render a MapView
HasMap(branch) == branch \in {"split", "mapOnly", "mobileMap"}

\* properties.find(p => p.id === selectedPropertyId)
selectedProperty(vis, sel) ==
  {i \in 1..Len(vis) : sel.k = "number" /\ vis[i].id = sel.n}

\* the ring-2 class of a card
CardHighlighted_Always(property, sel) == TRUE

CardHighlighted(property, sel) == sel.k = "number" /\ sel.n = property.id

\* Restore state from URL on mount
RestoreFromUrl(query) ==
  LET params == URLSearchParams(query)
      view == USPGet(params, "view")
      selected == USPGet(params, "selected")
  IN  [split |-> view = <<"split">>,
       mapOnly |-> view = <<"map">>,
       sel |-> IF selected # JsNull /\ selected # <<>>
               THEN (IF Number(selected).nan THEN SelNaN
                     ELSE Sel(Number(selected).n))
               ELSE Undefined]

\* Update URL when split view, map only, or selected property changes
UpdateUrl(query, split, mapOnly, sel) ==
  LET p0 == URLSearchParams(query)
      p1 == IF split THEN USPSet(p0, "view", <<"split">>)
            ELSE IF mapOnly THEN USPSet(p0, "view", <<"map">>)
            ELSE USPDelete(p0, "view")
      p2 == IF Truthy(sel) THEN USPSet(p1, "selected", String(sel.n))
            ELSE USPDelete(p1, "selected")
  IN  USPToString(p2)

(***************************************************************************)
(* MapView: markers                                                        *)
(***************************************************************************)
MarkerIds(vis) == {vis[i].id : i \in {j \in 1..Len(vis) : vis[j].hasCoords}}

\* Create markers only when properties change: every marker is rebuilt, with
\* class 'selected' forgotten
CreateMarkers_Unselected(vis, sel) == [id \in MarkerIds(vis) |-> FALSE]

\* Create markers only when properties change (and on every render of the
\* parent, whose onPropertySelect is a new function each time)
CreateMarkers(vis, sel) ==
  [id \in MarkerIds(vis) |-> sel.k = "number" /\ sel.n = id]

\* Update marker selection class when selectedPropertyId changes
UpdateSelectionClass(markers, sel) ==
  [id \in DOMAIN markers |-> sel.k = "number" /\ sel.n = id]

NoMarkers == [id \in {} |-> FALSE]


(***************************************************************************)
(* FilterBar effects and ListingsContent.handleFilterChange                *)
(***************************************************************************)
\* On desktop, submit changes immediately -- with the comparison left out
DesktopSubmitEffect_NoCompare(local, flt, mobile) == ~mobile

\* On desktop, submit changes immediately: whether the effect calls
\* onFilterChange(localFilters)
DesktopSubmitEffect(local, flt, mobile) ==
  /\ ~mobile
  /\ \/ local.showAllStatuses # flt.showAllStatuses
     \/ local.bedrooms # flt.bedrooms
     \/ local.location # flt.location
     \/ local.minPrice # flt.minPrice
     \/ local.maxPrice # flt.maxPrice

\* the text shown for a rejected navigation, taking every reason for an Error
ErrorMessage_AlwaysMessage(reason) == reason.message

\* err instanceof Error ? err.message : 'Failed to update filters. Please try again.'
ErrorMessage(reason) ==
  IF reason.isError THEN reason.message
  ELSE <<"Failed to update filters. Please try again.">>

\* the state an event leaves behind before the effects run
Cur ==
  [url |-> url, filters |-> filters, fchg |-> FALSE,
   sel |-> selectedPropertyId, mapOnly |-> showMapOnly, split |-> forceSplitView,
   mode |-> viewMode, parentMode |-> parentViewMode, mobile |-> isMobile,
   local |-> localFilters, draft |-> mobileDraftFilters,
   drawer |-> isMobileFiltersOpen, dropdown |-> isBedroomDropdownOpen,
   isLoading |-> isLoading, error |-> error, pending |-> pending,
   calls |-> <<>>, applied |-> lastApplied]

\* handleFilterChange(newFilters) up to its await
handleFilterChange(c, newFilters) ==
  [c EXCEPT !.isLoading = TRUE,
            !.error = <<>>,
            !.filters = newFilters,
            !.fchg = TRUE,
            !.pending = Append(c.pending, filtersToQuery(newFilters)),
            !.calls = Append(c.calls, filtersToQuery(newFilters)),
            !.applied = <<newFilters>>]

\* The renders and effects that follow an event, up to rest:
\*  - ListingsContent recomputes the visible list and renders PropertyListings
\*    (with its FilterBar and MapView) only when the list is not empty;
\*  - a PropertyListings that mounts restores view and selection from the URL;
\*  - PropertyListings rewrites the URL when view or selection changed, and
\*    ListingsContent re-parses the filters from a URL that changed;
\*  - FilterBar copies new filters into localFilters and mobileDraftFilters and
\*    runs the desktop submit effect on the copy;
\*  - MapView rebuilds its markers.
RestMap(c, old, vis1, fresh, viewChanged, flt1, vis2) ==
  LET m2 == Mounted(vis2)
      oldBranch == ContentBranch(old.filters, old.mobile, old.mode, old.mapOnly,
                                 old.split)
      branch1 == ContentBranch(flt1, c.mobile, c.mode, c.mapOnly, c.split)
      branch2 == ContentBranch(c.filters, c.mobile, c.mode, c.mapOnly, c.split)
      sameMap == Mounted(old.visible) /\ ~fresh /\ Mounted(vis1) /\ m2
                 /\ branch1 = oldBranch /\ branch2 = oldBranch
      rerender == c.fchg \/ viewChanged \/ c.mode # old.mode \/ c.mobile # old.mobile
      loaded == sameMap /\ HasMap(branch2) /\ old.mapLoaded
  IN  [url |-> c.url, filters |-> c.filters, visible |-> vis2,
       sel |-> IF m2 THEN c.sel ELSE Undefined,
       mapOnly |-> (m2 /\ c.mapOnly), split |-> (m2 /\ c.split),
       mode |-> IF m2 THEN c.mode ELSE "list",
       parentMode |-> c.parentMode, mobile |-> c.mobile,
       local |-> c.local, draft |-> c.draft,
       drawer |-> (m2 /\ ~fresh /\ c.drawer),
       dropdown |-> (m2 /\ ~fresh /\ c.dropdown),
       isLoading |-> c.isLoading, error |-> c.error, pending |-> c.pending,
       calls |-> c.calls, applied |-> c.applied,
       mapLoaded |-> loaded,
       markers |-> IF loaded
                   THEN (IF rerender
                         THEN (IF c.sel # old.sel
                               THEN UpdateSelectionClass(CreateMarkers(vis2, c.sel),
                                                         c.sel)
                               ELSE CreateMarkers(vis2, c.sel))
                         ELSE old.markers)
                   ELSE NoMarkers]

\* FilterBar: Sync local state with filters if filters change externally, then
\* On desktop, submit changes immediately
RestBar(c, old, vis1, fresh, viewChanged, flt1, vis2) ==
  LET m2 == Mounted(vis2)
      sync == fresh \/ c.fchg \/ ~m2
      c1 == IF sync THEN [c EXCEPT !.local = c.filters, !.draft = c.filters] ELSE c
      resubmit == m2 /\ (fresh \/ c.fchg \/ c.mobile # old.mobile)
                  /\ DesktopSubmitEffect(c1.local, c.filters, c.mobile)
  IN  The({RestMap(c2, old, vis1, fresh, viewChanged, flt1, vis2) :
             c2 \in {IF resubmit THEN handleFilterChange(c1, c1.local) ELSE c1}})

\* ListingsContent: Keep filters in sync with URL
RestFilters(c, old, vis1, fresh, viewChanged, url2) ==
  LET flt2 == IF url2 # c.url
              THEN parseFiltersFromSearchParams(URLSearchParams(url2))
              ELSE c.filters
  IN  The({RestBar(c2, old, vis1, fresh, viewChanged, c.filters, vis2) :
             c2 \in {[c EXCEPT !.url = url2, !.filters = flt2,
                               !.fchg = c.fchg \/ url2 # c.url]},
             vis2 \in {filteredProperties(old.properties, flt2)}})

\* PropertyListings: Update URL when split view, map only, or selected property
\* changes; on mount the effect runs with the initial state first
RestUrl(c, old, vis1, fresh) ==
  LET viewChanged == <<c.sel, c.mapOnly, c.split>>
                       # <<old.sel, old.mapOnly, old.split>>
  IN  The({RestFilters(c, old, vis1, fresh, changed, url2) :
             changed \in {viewChanged},
             url2 \in {IF ~Mounted(vis1) THEN c.url
                       ELSE IF fresh
                       THEN UpdateUrl(UpdateUrl(c.url, FALSE, FALSE, Undefined),
                                      c.split, c.mapOnly, c.sel)
                       ELSE IF viewChanged
                       THEN UpdateUrl(c.url, c.split, c.mapOnly, c.sel)
                       ELSE c.url}})

\* PropertyListings: Restore state from URL on mount
RestMount(c, old, vis1) ==
  LET fresh == Mounted(vis1) /\ ~Mounted(old.visible)
      r == RestoreFromUrl(c.url)
  IN  The({RestUrl(c2, old, vis1, isFresh) :
             isFresh \in {fresh},
             c2 \in {IF fresh
                     THEN [c EXCEPT !.sel = r.sel, !.mapOnly = r.mapOnly,
                                    !.split = r.split, !.mode = "list"]
                     ELSE c}})

Rest(c, old) ==
  The({RestMount(c0, old0, vis1) :
         c0 \in {c}, old0 \in {old},
         vis1 \in {filteredProperties(old.properties, c.filters)}})

\* what the last render left behind
Old ==
  [properties |-> properties, visible |-> visible, filters |-> filters,
   sel |-> selectedPropertyId, mapOnly |-> showMapOnly, split |-> forceSplitView,
   mode |-> viewMode, mobile |-> isMobile, mapLoaded |-> mapLoaded,
   markers |-> markerElements]

\* an event's state changes followed by the renders and effects up to rest
Settle(c) ==
  \E r \in {Rest(c, Old)} :
      /\ url' = r.url
      /\ filters' = r.filters
      /\ visible' = r.visible
      /\ selectedPropertyId' = r.sel
      /\ showMapOnly' = r.mapOnly
      /\ forceSplitView' = r.split
      /\ viewMode' = r.mode
      /\ parentViewMode' = r.parentMode
      /\ isMobile' = r.mobile
      /\ localFilters' = r.local
      /\ mobileDraftFilters' = r.draft
      /\ isMobileFiltersOpen' = r.drawer
      /\ isBedroomDropdownOpen' = r.dropdown
      /\ isLoading' = r.isLoading
      /\ error' = r.error
      /\ pending' = r.pending
      /\ lastCalls' = r.calls
      /\ lastApplied' = r.applied
      /\ mapLoaded' = r.mapLoaded
      /\ markerElements' = r.markers
      /\ UNCHANGED <<properties, apiVars, siteVars>>

(***************************************************************************)
(* What the user can reach                                                 *)
(***************************************************************************)
\* the property-details modal covers the page
ModalShown ==
  /\ Mounted(visible)
  /\ selectedProperty(visible, selectedPropertyId) # {}
  /\ (isMobile \/ (showMapOnly /\ ~forceSplitView))

\* the mobile filter drawer covers the page (it is hidden from md up)
DrawerShown == Mounted(visible) /\ isMobile /\ isMobileFiltersOpen

\* the filter inputs can be used: the desktop form, or the open drawer
FilterInputsShown ==
  /\ Mounted(visible)
  /\ ~ModalShown
  /\ (isMobile => isMobileFiltersOpen)

\* the controls of the page below the overlays can be used
PageShown == Mounted(visible) /\ ~ModalShown /\ ~DrawerShown

Branch == ContentBranch(filters, isMobile, viewMode, showMapOnly, forceSplitView)

(***************************************************************************)
(* FilterBar events                                                        *)
(***************************************************************************)
\* setMobileDraftFilters / setLocalFilters(prev => ({...prev, [field]: value}))
\* and, on desktop, the submit effect that follows
ApplyEdit(field, value) ==
  IF isMobile
  THEN Settle([Cur EXCEPT !.draft = [mobileDraftFilters EXCEPT ![field] = value]])
  ELSE LET new == [localFilters EXCEPT ![field] = value]
           c1 == [Cur EXCEPT !.local = new]
       IN  Settle(IF DesktopSubmitEffect(new, filters, isMobile)
                  THEN handleFilterChange(c1, new) ELSE c1)

\* an edit, while the navigations in flight are within the bound
EditFilter(field, value) ==
  /\ isMobile \/ Len(pending) < MaxPending
  /\ ApplyEdit(field, value)

handleLocationChange(text) ==
  /\ FilterInputsShown
  /\ EditFilter("location", text)

\* e.target.value === '' ? 0 : Math.max(0, parseInt(e.target.value) || 0)
PriceValue(text) == IF text = <<>> THEN 0 ELSE MathMax0(OrZero(parseInt(text)))

handleMinPriceChange(text) ==
  /\ FilterInputsShown
  /\ EditFilter("minPrice", PriceValue(text))

handleMaxPriceChange(text) ==
  /\ FilterInputsShown
  /\ EditFilter("maxPrice", PriceValue(text))

handleShowAllStatusesChange ==
  /\ FilterInputsShown
  /\ EditFilter("showAllStatuses",
                ~(IF isMobile THEN mobileDraftFilters
                  ELSE localFilters).showAllStatuses)

\* the bedrooms button: setIsBedroomDropdownOpen(!isBedroomDropdownOpen)
ToggleBedroomDropdown ==
  /\ FilterInputsShown
  /\ Settle([Cur EXCEPT !.dropdown = ~isBedroomDropdownOpen])

handleBedroomSelect(bedrooms) ==
  /\ FilterInputsShown
  /\ isBedroomDropdownOpen
  /\ IF isMobile
     THEN Settle([Cur EXCEPT !.dropdown = FALSE,
                             !.draft = [mobileDraftFilters
                                          EXCEPT !.bedrooms = bedrooms]])
     ELSE /\ Len(pending) < MaxPending
          /\ LET new == [localFilters EXCEPT !.bedrooms = bedrooms]
                 c1 == [Cur EXCEPT !.local = new, !.dropdown = FALSE]
             IN  Settle(IF DesktopSubmitEffect(new, filters, isMobile)
                        THEN handleFilterChange(c1, new) ELSE c1)

\* handleSubmit that leaves the view mode as it is
handleSubmit_KeepViewMode ==
  /\ FilterInputsShown
  /\ Len(pending) < MaxPending
  /\ IF isMobile
     THEN Settle([handleFilterChange(Cur, mobileDraftFilters) EXCEPT !.drawer = FALSE])
     ELSE Settle(handleFilterChange(Cur, localFilters))

\* Handle form submit (Apply Filters on mobile, Search on desktop)
handleSubmit ==
  /\ FilterInputsShown
  /\ Len(pending) < MaxPending
  /\ IF isMobile
     THEN Settle([handleFilterChange(Cur, mobileDraftFilters)
                    EXCEPT !.drawer = FALSE, !.mode = "list", !.parentMode = "list"])
     ELSE Settle(handleFilterChange(Cur, localFilters))

\* opening the drawer without resetting the draft
handleOpenMobileDrawer_KeepDraft ==
  /\ PageShown
  /\ isMobile
  /\ Settle([Cur EXCEPT !.drawer = TRUE])

\* When opening the mobile drawer, always reset mobileDraftFilters to the
\* latest filters
handleOpenMobileDrawer ==
  /\ PageShown
  /\ isMobile
  /\ Settle([Cur EXCEPT !.draft = filters, !.drawer = TRUE])

\* When closing mobile drawer with X, discard changes
handleMobileDrawerClose ==
  /\ DrawerShown
  /\ ~ModalShown
  /\ Settle([Cur EXCEPT !.draft = filters, !.drawer = FALSE])

\* Handle click outside to close mobile filters
handleClickOutside ==
  /\ DrawerShown
  /\ ~ModalShown
  /\ Settle([Cur EXCEPT !.drawer = FALSE])

(***************************************************************************)
(* Router and browser events                                               *)
(***************************************************************************)
\* a new URL reaches useSearchParams: Keep filters in sync with URL
UrlChanged(c, query) ==
  IF query = c.url THEN c
  ELSE [c EXCEPT !.url = query,
                 !.filters = parseFiltersFromSearchParams(URLSearchParams(query)),
                 !.fchg = TRUE]

\* the oldest router.replace in flight commits: the URL becomes `?${query}`
\* and handleFilterChange resumes after its await
NavResolve ==
  /\ pending # <<>>
  /\ Settle([UrlChanged(Cur, Head(pending))
               EXCEPT !.pending = Tail(pending), !.isLoading = FALSE])

\* the oldest router.replace in flight rejects: catch and finally
NavReject(reason) ==
  /\ pending # <<>>
  /\ Settle([Cur EXCEPT !.pending = Tail(pending),
                        !.error = ErrorMessage(reason),
                        !.isLoading = FALSE])

\* back / forward / a link to the same page with another query string
HistoryChange(query) ==
  /\ query # url
  /\ Settle([UrlChanged(Cur, query) EXCEPT !.applied = <<>>])

\* the window crosses the 768px media query
Resize ==
  /\ isMobile' = ~isMobile
  /\ Settle([Cur EXCEPT !.mobile = ~isMobile])

(***************************************************************************)
(* PropertyListings and MapView events                                     *)
(***************************************************************************)
\* the desktop Map button above the grid
DesktopMapButton ==
  /\ PageShown
  /\ ~isMobile /\ ~hasLocation(filters)
  /\ ~showMapOnly /\ ~forceSplitView
  /\ Settle([Cur EXCEPT !.mapOnly = TRUE, !.split = FALSE])

\* the mobile List / Map buttons
handleSetViewMode(mode) ==
  /\ PageShown
  /\ isMobile
  /\ Settle([Cur EXCEPT !.mode = mode, !.parentMode = mode])

\* a marker is clicked
handlePropertySelect(propertyId) ==
  /\ PageShown
  /\ HasMap(Branch) /\ mapLoaded
  /\ propertyId \in DOMAIN markerElements
  /\ Settle(IF ~isMobile /\ ~hasLocation(filters) /\ showMapOnly
            THEN [Cur EXCEPT !.sel = Sel(propertyId),
                             !.mapOnly = FALSE, !.split = TRUE]
            ELSE [Cur EXCEPT !.sel = Sel(propertyId)])

\* a card of the split view is clicked ("Highlight on map")
handleCardClick(propertyId) ==
  /\ PageShown
  /\ Branch = "split"
  /\ \E i \in 1..Len(visible) : visible[i].id = propertyId
  /\ Settle(IF ~isMobile /\ ~hasLocation(filters) /\ ~forceSplitView
            THEN [Cur EXCEPT !.sel = Sel(propertyId),
                             !.split = TRUE, !.mapOnly = FALSE]
            ELSE [Cur EXCEPT !.sel = Sel(propertyId)])

\* the modal's backdrop or its close button
CloseModal ==
  /\ ModalShown
  /\ Settle([Cur EXCEPT !.sel = Undefined])

\* ESC-to-close modal: the listener exists while selectedProperty does
EscapeKey ==
  /\ Mounted(visible)
  /\ selectedProperty(visible, selectedPropertyId) # {}
  /\ Settle([Cur EXCEPT !.sel = Undefined, !.dropdown = FALSE])

\* the modal's Previous (step = -1) and Next (step = 1) buttons
ModalStep(step) ==
  /\ ModalShown
  /\ LET idx == CHOOSE i \in selectedProperty(visible, selectedPropertyId) :
                  \A j \in selectedProperty(visible, selectedPropertyId) : i <= j
         to == ((idx - 1 + step + Len(visible)) % Len(visible)) + 1
     IN  Settle([Cur EXCEPT !.sel = Sel(visible[to].id)])

\* the map's 'load' event: setMapLoaded(true), then the markers are created
MapLoad ==
  /\ Mounted(visible)
  /\ HasMap(Branch)
  /\ ~mapLoaded
  /\ mapLoaded' = TRUE
  /\ markerElements' = CreateMarkers(visible, selectedPropertyId)
  /\ lastCalls' = <<>>
  /\ UNCHANGED <<listingVars, viewVars, filterBarVars, lastApplied, apiVars, siteVars>>


(***************************************************************************)
(* mockAuthUtils: the agent cookies                                        *)
(***************************************************************************)
AGENT_KEY == "agentName"

AGENT_ID_KEY == "agentId"

encodeURIComponent(s) ==
  [i \in 1..Len(s) |->
     CASE s[i] = " " -> "%20" [] s[i] = ";" -> "%3B" [] s[i] = "=" -> "%3D"
       [] OTHER -> s[i]]

decodeURIComponent(s) ==
  [i \in 1..Len(s) |->
     CASE s[i] = "%20" -> " " [] s[i] = "%3B" -> ";" [] s[i] = "%3D" -> "="
       [] OTHER -> s[i]]

\* Helper to set a cookie (browser only)
setCookie(jar, name, value) ==
  IF hasDocument
  THEN [n \in DOMAIN jar \cup {name} |->
          IF n = name THEN encodeURIComponent(value) ELSE jar[n]]
  ELSE jar

\* Helper to get a cookie (browser only)
getCookie(jar, name) ==
  IF hasDocument /\ name \in DOMAIN jar THEN decodeURIComponent(jar[name])
  ELSE JsNull

\* Helper to remove a cookie (browser only)
removeCookie(jar, name) ==
  IF hasDocument THEN [n \in DOMAIN jar \ {name} |-> jar[n]] ELSE jar

getAgentName(jar) == getCookie(jar, AGENT_KEY)

\* id ? parseInt(id, 10) : null
getAgentId(jar) ==
  LET id == getCookie(jar, AGENT_ID_KEY)
  IN  IF id = JsNull \/ id = <<>> THEN [null |-> TRUE, nan |-> FALSE, n |-> 0]
      ELSE [null |-> FALSE, nan |-> parseInt(id).nan, n |-> parseInt(id).n]

\* !!getAgentName()
isLoggedIn(jar) == getAgentName(jar) # JsNull /\ getAgentName(jar) # <<>>

login(name, id) ==
  /\ cookieJar' = setCookie(setCookie(cookieJar, AGENT_KEY, name),
                            AGENT_ID_KEY, String(id))
  /\ UNCHANGED <<hasDocument, db, requests, lastResponse, pageVars, siteVars>>

logout ==
  /\ cookieJar' = removeCookie(removeCookie(cookieJar, AGENT_KEY), AGENT_ID_KEY)
  /\ UNCHANGED <<hasDocument, db, requests, lastResponse, pageVars, siteVars>>

(***************************************************************************)
(* /api/agent/properties/[id]: PATCH and DELETE                            *)
(***************************************************************************)
NoRow == [agentId |-> 0, title |-> 0]

\* one invocation of a handler: its inputs, where it stands, the agentId it read
\* from the cookie, whether findUnique found a row and that row's agentId, its
\* answer, and whether its update or delete was carried out
Request(method, id, body) ==
  [method |-> method, id |-> id, body |-> body, pc |-> "start",
   agentId |-> 0, found |-> FALSE, owner |-> 0,
   status |-> 0, error |-> "", wrote |-> FALSE]

\* what is kept of an invocation that has answered
Response(r) ==
  [method |-> r.method, pc |-> r.pc, agentId |-> r.agentId, found |-> r.found,
   owner |-> r.owner, status |-> r.status, error |-> r.error, wrote |-> r.wrote]

Respond(r, status, message) ==
  [r EXCEPT !.pc = "done", !.status = status, !.error = message]

\* the answer of the catch block
Failed(r) ==
  Respond(r, 500, IF r.method = "PATCH" THEN "Failed to update property"
                  ELSE "Failed to delete property")

\* !agentId for the value getAgentId returns
NoAgentId(a) == a.null \/ a.nan \/ a.n = 0

\* the ownership test of PATCH and DELETE, left out
Forbidden_Never(existingProperty, agentId) == FALSE

\* existingProperty.agentId !== agentId
Forbidden(existingProperty, agentId) == existingProperty.agentId # agentId

\* the handler without its session tests
AgentPropertyStart_NoSession(r) ==
  [r EXCEPT !.pc = "find", !.agentId = getAgentId(cookieJar).n]

\* the handler up to its first database call
AgentPropertyStart(r) ==
  IF ~isLoggedIn(cookieJar) THEN Respond(r, 401, "Unauthorized")
  ELSE IF NoAgentId(getAgentId(cookieJar)) THEN Respond(r, 401, "Unauthorized")
  ELSE [r EXCEPT !.pc = "find", !.agentId = getAgentId(cookieJar).n]

\* the invocation r leaves with its answer
Answer(r, answered) ==
  /\ requests' = requests (-) SetToBag({r})
  /\ lastResponse' = Response(answered)

\* the invocation r moves on to its next await
Await(r, next) ==
  /\ requests' = (requests (-) SetToBag({r})) (+) SetToBag({next})
  /\ lastResponse' = lastResponse

\* a request arrives and runs to its first await on the database
ReceiveRequest(method, id, body) ==
  /\ BagCardinality(requests) < MaxRequests
  /\ LET r == AgentPropertyStart(Request(method, id, body))
     IN  IF r.pc = "done"
         THEN requests' = requests /\ lastResponse' = Response(r)
         ELSE requests' = requests (+) SetToBag({r}) /\ lastResponse' = lastResponse
  /\ UNCHANGED <<hasDocument, cookieJar, db, pageVars, siteVars>>

\* prisma.property.findUnique resolves and the handler runs to its next await
FindUnique(r) ==
  /\ BagIn(r, requests)
  /\ r.pc = "find"
  /\ LET propertyId == Number(r.id)
         hit == ~propertyId.nan /\ propertyId.n \in DOMAIN db
         row == IF hit THEN db[propertyId.n] ELSE NoRow
         r1 == [r EXCEPT !.owner = row.agentId, !.found = hit]
     IN  IF propertyId.nan THEN Answer(r, Failed(r1))
         ELSE IF ~hit THEN Answer(r, Respond(r1, 404, "Property not found"))
         ELSE IF Forbidden(row, r.agentId)
         THEN Answer(r, Respond(r1, 403, "Forbidden"))
         ELSE Await(r, [r1 EXCEPT !.pc = "write"])
  /\ UNCHANGED <<hasDocument, cookieJar, db, pageVars, siteVars>>

\* the foreign key of Inquiry.propertyId: what the database does when a
\* property that inquiries refer to is deleted
OnDeleteModes == {"Restrict", "Cascade"}

\* the foreign key refuses the deletion of the property
Restricted(propertyId, onDelete) ==
  onDelete = "Restrict" /\ \E q \in inquiries : q.propertyId = propertyId

\* the inquiry table once the property is deleted
InquiriesWithout(propertyId) == {q \in inquiries : q.propertyId # propertyId}

\* request.json() and prisma.property.update / delete resolve; a row that is
\* gone, or one the foreign key holds, throws and the catch answers 500
WriteProperty(r) ==
  /\ BagIn(r, requests)
  /\ r.pc = "write"
  /\ LET propertyId == Number(r.id).n
         gone == propertyId \notin DOMAIN db
     IN  IF gone
         THEN Answer(r, Failed(r)) /\ db' = db /\ inquiries' = inquiries
         ELSE IF r.method = "PATCH"
         THEN /\ db' = [db EXCEPT ![propertyId] =
                          [@ EXCEPT ![r.body.field] = r.body.value]]
              /\ inquiries' = inquiries
              /\ Answer(r, [Respond(r, 200, "") EXCEPT !.wrote = TRUE])
         ELSE \E onDelete \in OnDeleteModes :
                IF Restricted(propertyId, onDelete)
                THEN Answer(r, Failed(r)) /\ db' = db /\ inquiries' = inquiries
                ELSE /\ db' = [n \in DOMAIN db \ {propertyId} |-> db[n]]
                     /\ inquiries' = InquiriesWithout(propertyId)
                     /\ Answer(r, [Respond(r, 204, "") EXCEPT !.wrote = TRUE])
  /\ UNCHANGED <<hasDocument, cookieJar, pageVars, inquiryRequests, inquiryResponse,
                 authVars, formVars, dashboardVars>>

\* the call awaited (findUnique, request.json(), update, delete) rejects: the
\* catch answers 500
DatabaseError(r) ==
  /\ BagIn(r, requests)
  /\ Answer(r, Failed(r))
  /\ UNCHANGED <<hasDocument, cookieJar, db, pageVars, siteVars>>

(***************************************************************************)
(* Initial states                                                          *)
(***************************************************************************)
\* the lists of at most MaxProps distinct properties of a catalog, in any order
Lists(catalog) ==
  UNION {{l \in [1..n -> catalog] : \A i, j \in 1..n : i < j => l[i] # l[j]} :
           n \in 0..MaxProps}

\* ListingsContent and PropertyListings as first rendered at a query string
Mount(props, query, mobile) ==
  LET f0 == parseFiltersFromSearchParams(URLSearchParams(query))
  IN  Rest([url |-> query, filters |-> f0, fchg |-> FALSE,
            sel |-> Undefined, mapOnly |-> FALSE, split |-> FALSE,
            mode |-> "list", parentMode |-> "list", mobile |-> mobile,
            local |-> f0, draft |-> f0, drawer |-> FALSE, dropdown |-> FALSE,
            isLoading |-> FALSE, error |-> <<>>, pending |-> <<>>,
            calls |-> <<>>, applied |-> <<>>],
           [properties |-> props, visible |-> <<>>, filters |-> f0,
            sel |-> Undefined, mapOnly |-> FALSE, split |-> FALSE,
            mode |-> "list", mobile |-> mobile, mapLoaded |-> FALSE,
            markers |-> NoMarkers])

\* the page is in the state r with the properties prop props
PageIs(props, r) ==
  /\ properties = props
  /\ url = r.url
  /\ filters = r.filters
  /\ visible = r.visible
  /\ selectedPropertyId = r.sel
  /\ showMapOnly = r.mapOnly
  /\ forceSplitView = r.split
  /\ viewMode = r.mode
  /\ parentViewMode = r.parentMode
  /\ isMobile = r.mobile
  /\ localFilters = r.local
  /\ mobileDraftFilters = r.draft
  /\ isMobileFiltersOpen = r.drawer
  /\ isBedroomDropdownOpen = r.dropdown
  /\ isLoading = r.isLoading
  /\ error = r.error
  /\ pending = r.pending
  /\ lastCalls = r.calls
  /\ lastApplied = r.applied
  /\ mapLoaded = r.mapLoaded
  /\ markerElements = r.markers

NoCookies == [n \in {} |-> <<>>]

NoResponse == Response([Request("NONE", <<>>, [field |-> "title", value |-> 0])
                          EXCEPT !.pc = "none"])

\* one property, of agent 1
SeedDb == [n \in {1} |-> [agentId |-> 1, title |-> 0]]

\* no inquiry was ever sent
NoInquiryResponse ==
  [method |-> "NONE", status |-> 0, error |-> "", propertyId |-> 0,
   agentId |-> 0, stored |-> {}, list |-> {}]

\* no auth effect has called the router
NoRedirect == [to |-> "", from |-> "", hydrated |-> FALSE, stored |-> JsNull]

\* the browser has loaded the page at path: AuthProvider and the page are
\* rendered for the first time and their effects are due
Loaded(path, stored) ==
  /\ localStorageAgent = stored
  /\ isAuthenticated = FALSE
  /\ user = JsNull
  /\ hydrated = FALSE
  /\ pathname = path
  /\ effectPending = TRUE
  /\ navigating = ""
  /\ lastRedirect = NoRedirect

\* the property the form starts from when none is given
EmptyForm ==
  [title |-> <<>>, description |-> <<>>, price |-> JsNum(0),
   bedrooms |-> JsNum(0), bathrooms |-> JsNum(0), address |-> <<>>]

NoErrors == [f \in {} |-> ""]

FormIdle ==
  /\ formData = EmptyForm
  /\ errors = NoErrors
  /\ announcement = ""
  /\ onSubmitCalls = <<>>

\* the dashboard is not open
DashboardIdle ==
  /\ fetchedProperties = <<>>
  /\ dashboardProperties = <<>>
  /\ deletes = {}
  /\ deleteSucceeded = {}

InquiriesIdle ==
  /\ inquiries = {}
  /\ inquiryRequests = EmptyBag
  /\ inquiryResponse = NoInquiryResponse

SiteIdle ==
  /\ InquiriesIdle
  /\ Loaded("/", JsNull)
  /\ FormIdle
  /\ DashboardIdle

\* no agent API traffic
ApiIdle ==
  /\ SiteIdle
  /\ hasDocument = TRUE
  /\ cookieJar = NoCookies
  /\ db = SeedDb
  /\ requests = EmptyBag
  /\ lastResponse = NoResponse

\* a page nobody has opened
PageIdle == PageIs(<<>>, Mount(<<>>, <<>>, FALSE))

(***************************************************************************)
(* The agent API                                                           *)
(***************************************************************************)
\* what the login form is submitted with: agents 1 and 2, an agent id of 0
\* and an empty name
Logins == {<<<<"A">>, 1>>, <<<<"A">>, 2>>, <<<<"A">>, 0>>, <<<<>>, 1>>}

RequestIds == {<<"1">>, <<"x">>}

RequestBodies == {[field |-> "title", value |-> 1],
                  [field |-> "agentId", value |-> 2]}

\* the handlers run where a document exists (jsdom under the route tests) or
\* where none does (the Node server)
InitApi ==
  /\ PageIdle
  /\ SiteIdle
  /\ hasDocument \in BOOLEAN
  /\ cookieJar = NoCookies
  /\ db = SeedDb
  /\ requests = EmptyBag
  /\ lastResponse = NoResponse

NextApi ==
  \/ \E l \in Logins : login(l[1], l[2])
  \/ logout
  \/ \E id \in RequestIds, body \in RequestBodies : ReceiveRequest("PATCH", id, body)
  \/ \E id \in RequestIds : ReceiveRequest("DELETE", id, [field |-> "title", value |-> 0])
  \/ \E r \in BagToSet(requests) : FindUnique(r)
  \/ \E r \in BagToSet(requests) : WriteProperty(r)
  \/ \E r \in BagToSet(requests) : DatabaseError(r)

SpecApi == InitApi /\ [][NextApi]_vars

HasSession == isLoggedIn(cookieJar) /\ ~NoAgentId(getAgentId(cookieJar))

\* C12: PATCH and DELETE /api/agent/properties/[id] decide in a fixed order:
\* 401 'Unauthorized' when the caller is not logged in or has no agent id,
\* before any database access (no invocation of such a caller gets as far as
\* the database); else 404 'Property not found' when no property has the id;
\* else 403 when another agent owns it; else the write is performed, answered
\* 200 by PATCH and 204 by DELETE; an exception during the database work is
\* answered 500, and nothing else is answered.
C12_OutcomeOrder ==
  /\ [](LET a == lastResponse
        IN  /\ a.status \in {0, 401, 404, 403, 200, 204, 500}
            /\ a.status = 401 =>
                 a.error = "Unauthorized" /\ a.agentId = 0 /\ ~a.found /\ ~a.wrote
            /\ a.status = 404 =>
                 /\ a.error = "Property not found"
                 /\ a.agentId # 0 /\ ~a.found /\ ~a.wrote
            /\ a.status = 403 =>
                 a.agentId # 0 /\ a.found /\ a.owner # a.agentId /\ ~a.wrote
            /\ a.status \in {200, 204} =>
                 /\ a.agentId # 0 /\ a.found /\ a.owner = a.agentId /\ a.wrote
                 /\ a.status = 200 <=> a.method = "PATCH"
                 /\ a.status = 204 <=> a.method = "DELETE"
            /\ a.status = 500 =>
                 /\ a.agentId # 0 /\ ~a.wrote
                 /\ a.error \in {"Failed to update property",
                                 "Failed to delete property"}
            /\ a.wrote => a.status \in {200, 204}
            /\ a.status # 0 /\ a.agentId # 0 /\ ~a.found => a.status \in {404, 500}
            /\ a.found /\ a.owner # a.agentId => a.status \in {403, 500})
  /\ [](\A r \in BagToSet(requests) : r.agentId # 0 /\ r.status = 0)
  /\ [][~HasSession => /\ BagCardinality(requests') <= BagCardinality(requests)
                       /\ (lastResponse' # lastResponse /\ requests' = requests
                             => lastResponse'.status = 401)]_vars
  /\ [][HasSession /\ requests' = requests /\ lastResponse' # lastResponse
          => lastResponse'.status # 401]_vars

\* agent 1 has deleted the only property, and a later request of a logged-in
\* agent for it was answered 404
C12_Witness ==
  /\ lastResponse.status = 404
  /\ lastResponse.agentId # 0
  /\ db # SeedDb
  /\ 1 \notin DOMAIN db

(***************************************************************************)
(* The listings page: filters and the URL                                  *)
(***************************************************************************)
P1 == Property(1, "active", <<"a">>, 2, 1, 1, TRUE)

P2 == Property(2, "pending", <<"A", "b">>, 10, 3, 2, TRUE)

P3 == Property(3, "active", <<"b">>, 1, 2, 1, FALSE)

PageCatalog == {P1, P2}

\* the query strings the page is opened with
StartQueries == {<<>>, <<"location", "=", "a">>}

\* what is typed into the location input
LocationTexts == {<<>>, <<"b">>}

\* what is typed into a price input
PriceTexts == {<<>>, <<"3">>, <<"x">>}

\* the bedroom options picked
BedroomPicks == {0, 2}

\* what router.replace rejects with: an Error, or a thrown value that is none
Reasons == {[isError |-> TRUE, message |-> <<"Router error">>],
            [isError |-> FALSE, message |-> <<"not an Error">>]}

\* the query strings history navigation leads to
HistoryQueries == {<<>>,
                   <<"minPrice", "=", "x">>,
                   <<"showAllStatuses", "=", "true", "&", "view", "=", "map">>}

\* the page as opened on a phone or on a desktop
Init ==
  /\ \E props \in Lists(PageCatalog), query \in StartQueries, mobile \in BOOLEAN :
       PageIs(props, Mount(props, query, mobile))
  /\ ApiIdle

\* location and status filters applied from both layouts, navigations that
\* commit or fail, history navigation and resizing
Next ==
  \/ \E text \in LocationTexts : handleLocationChange(text)
  \/ handleShowAllStatusesChange
  \/ handleSubmit
  \/ handleOpenMobileDrawer
  \/ handleMobileDrawerClose
  \/ handleClickOutside
  \/ NavResolve
  \/ \E reason \in Reasons : NavReject(reason)
  \/ \E query \in HistoryQueries : HistoryChange(query)
  \/ Resize

Spec == Init /\ [][Next]_vars

\* the page as opened on a desktop
InitDesktop ==
  /\ \E props \in Lists(PageCatalog), query \in StartQueries :
       PageIs(props, Mount(props, query, FALSE))
  /\ ApiIdle

\* every filter control of the desktop form, and navigations that commit or fail
NextDesktop ==
  \/ \E text \in LocationTexts : handleLocationChange(text)
  \/ \E text \in PriceTexts : handleMinPriceChange(text)
  \/ \E text \in PriceTexts : handleMaxPriceChange(text)
  \/ handleShowAllStatusesChange
  \/ ToggleBedroomDropdown
  \/ \E bedrooms \in BedroomPicks : handleBedroomSelect(bedrooms)
  \/ handleSubmit
  \/ NavResolve
  \/ \E reason \in Reasons : NavReject(reason)

SpecDesktop == InitDesktop /\ [][NextDesktop]_vars

\* C1: the URL query string is the source of truth for the filters: whenever
\* no router.replace is pending, the filter state is what
\* parseFiltersFromSearchParams reads from the current query string, and it is
\* the filters the user applied last.
C1_UrlIsSourceOfTruth ==
  pending = <<>> =>
    /\ filters = parseFiltersFromSearchParams(URLSearchParams(url))
    /\ lastApplied # <<>> => filters = lastApplied[1]

\* the same, in the runs where the navigation of the last filter change did
\* not fail
C1_InSyncUnlessFailed ==
  pending = <<>> /\ error = <<>> =>
    /\ filters = parseFiltersFromSearchParams(URLSearchParams(url))
    /\ lastApplied # <<>> => filters = lastApplied[1]

\* a filter change has been applied and its navigation has committed
C1_Applied ==
  /\ pending = <<>>
  /\ error = <<>>
  /\ lastApplied # <<>>
  /\ lastApplied[1].location = <<"b">>
  /\ url = <<"location", "=", "b">>

\* the filter fields the desktop form edits
FilterFields == {"location", "minPrice", "maxPrice", "bedrooms", "showAllStatuses"}

\* this step calls router.replace once, with the query string of new
OneReplace(new) ==
  /\ lastCalls' = <<filtersToQuery(new)>>
  /\ pending' = Append(pending, filtersToQuery(new))
  /\ filters' = new

\* this step is a desktop edit that sets field to a value it did not have
DesktopEdit(field, value, step) ==
  /\ ~isMobile
  /\ localFilters[field] # value
  /\ step

\* C4: a desktop filter edit that changes location, a price, bedrooms or status
\* calls router.replace exactly once, with filtersToQuery of the edited state,
\* and the parent's updates that follow (the optimistic one in the same step,
\* the one from the URL when the navigation commits) call it no further.
C4_OneReplacePerEdit ==
  [][/\ \A text \in LocationTexts :
          DesktopEdit("location", text, handleLocationChange(text))
            => OneReplace([localFilters EXCEPT !.location = text])
     /\ \A text \in PriceTexts :
          DesktopEdit("minPrice", PriceValue(text), handleMinPriceChange(text))
            => OneReplace([localFilters EXCEPT !.minPrice = PriceValue(text)])
     /\ \A text \in PriceTexts :
          DesktopEdit("maxPrice", PriceValue(text), handleMaxPriceChange(text))
            => OneReplace([localFilters EXCEPT !.maxPrice = PriceValue(text)])
     /\ \A bedrooms \in BedroomPicks :
          DesktopEdit("bedrooms", bedrooms, handleBedroomSelect(bedrooms))
            => OneReplace([localFilters EXCEPT !.bedrooms = bedrooms])
     /\ DesktopEdit("showAllStatuses", ~localFilters.showAllStatuses,
                    handleShowAllStatusesChange)
          => OneReplace([localFilters EXCEPT
                           !.showAllStatuses = ~localFilters.showAllStatuses])
     /\ NavResolve => lastCalls' = <<>> /\ pending' = Tail(pending)]_vars

\* a desktop edit of the minimum price has called router.replace once
C4_Witness ==
  /\ ~isMobile
  /\ lastCalls = <<<<"minPrice", "=", "3">>>>
  /\ pending = lastCalls
  /\ lastApplied = <<filters>>
  /\ filters.minPrice = 3

\* the text ListingsContent shows for a rejected navigation
DefaultErrorText == <<"Failed to update filters. Please try again.">>

F1 == Property(11, "active", <<"A", " ", "b">>, 2, 1, 1, TRUE)

F2 == Property(12, "pending", <<"a", "+", "B">>, 10, 6, 2, TRUE)

F3 == Property(13, "active", <<"b", "a">>, 3, 3, 3, FALSE)

FilterCatalog == {F1, F2, F3}

\* the options of the bedrooms dropdown
bedroomOptions == 0..6

\* the whole-number bathroom options picked
BathroomPicks == {0, 2}

\* the drafts typed into the filter drawer
DraftFilters ==
  {Filters(location, minPrice, maxPrice, bedrooms, 0, showAllStatuses) :
     location \in {<<>>, <<"a">>, <<" ", "B">>, <<"a", "+">>, <<" ">>},
     minPrice \in {0, 3, 10},
     maxPrice \in {0, 2, 10},
     bedrooms \in bedroomOptions,
     showAllStatuses \in BOOLEAN}

\* part_021's handler: setLocalFilters(prev => ({ ...prev, bathrooms })); the
\* dropdown it closes is not part of the state
handleBathroomSelect(bathrooms) ==
  /\ FilterInputsShown
  /\ Settle([Cur EXCEPT !.local = [localFilters EXCEPT !.bathrooms = bathrooms]])

\* the page opened without a query string: on a phone, with the filter drawer
\* open and a draft typed into it, or on a desktop
InitFilter ==
  /\ \/ \E props \in Lists(FilterCatalog), draft \in DraftFilters :
          \E r \in {Mount(props, <<>>, TRUE)} :
            PageIs(props, IF Mounted(r.visible)
                          THEN [r EXCEPT !.draft = draft, !.drawer = TRUE]
                          ELSE r)
     \/ \E props \in Lists(FilterCatalog) : PageIs(props, Mount(props, <<>>, FALSE))
  /\ ApiIdle

NextFilter ==
  \/ handleSubmit
  \/ \E bathrooms \in BathroomPicks : handleBathroomSelect(bathrooms)
  \/ handleOpenMobileDrawer
  \/ NavResolve
  \/ \E reason \in Reasons : NavReject(reason)

SpecFilter == InitFilter /\ [][NextFilter]_vars

\* property matches the filters flt, constraint by constraint
Matches(property, flt) ==
  /\ flt.showAllStatuses \/ property.status = "active"
  /\ \/ \A i \in 1..Len(flt.location) : flt.location[i] = " "
     \/ \E from \in 1..Len(property.address), first, last \in 1..Len(flt.location) :
          /\ flt.location[first] # " "
          /\ flt.location[last] # " "
          /\ \A i \in 1..Len(flt.location) :
               (i < first \/ i > last) => flt.location[i] = " "
          /\ from + (last - first) <= Len(property.address)
          /\ \A i \in first..last :
               ToLowerChar(property.address[from + (i - first)])
                 = ToLowerChar(flt.location[i])
  /\ flt.minPrice > 0 => property.price >= flt.minPrice
  /\ flt.maxPrice > 0 => property.price <= flt.maxPrice
  /\ flt.bedrooms > 0 => property.bedrooms >= flt.bedrooms

\* the positions of props whose property matches flt
Matching(props, flt) == {i \in 1..Len(props) : Matches(props[i], flt)}

\* C2: the visible list is exactly the subsequence of the input list, in the
\* input's order, whose properties satisfy every filter constraint (status,
\* trimmed case-insensitive location, minimum and maximum price, bedrooms);
\* with showAllStatuses false only active properties are visible.
C2_VisibleIsMatchingSubsequence ==
  /\ Len(visible) = Cardinality(Matching(properties, filters))
  /\ \A k \in 1..Len(visible) :
       \E i \in Matching(properties, filters) :
         /\ Cardinality({j \in Matching(properties, filters) : j <= i}) = k
         /\ visible[k] = properties[i]
  /\ ~filters.showAllStatuses => \A k \in 1..Len(visible) : visible[k].status = "active"

\* an applied filter with a padded location hides the first of two properties
C2_Witness ==
  /\ lastApplied = <<filters>>
  /\ filters.location = <<" ", "B">>
  /\ filters.showAllStatuses
  /\ filters.maxPrice = 10
  /\ Len(properties) = 2
  /\ visible = <<properties[2]>>

\* C3: for every filter object the FilterBar applies (any location text,
\* prices >= 0, bedrooms 0..6, showAllStatuses either way),
\* parseFiltersFromSearchParams(new URLSearchParams(filtersToQuery(f))) is f,
\* so the filters are what was applied once the navigation has committed.
C3_QueryRoundTrip ==
  \A i \in 1..Len(lastApplied) :
    lastApplied[i].bathrooms = 0 =>
      /\ parseFiltersFromSearchParams(URLSearchParams(filtersToQuery(lastApplied[i])))
           = lastApplied[i]
      /\ pending = <<>> /\ error = <<>> =>
           url = filtersToQuery(lastApplied[i]) /\ filters = lastApplied[i]

\* a draft with an escaped location, two-digit prices, the largest bedroom
\* option and showAllStatuses has been applied and read back from the URL
C3_Witness ==
  /\ lastApplied = <<Filters(<<"a", "+">>, 10, 10, 6, 0, TRUE)>>
  /\ pending = <<>>
  /\ error = <<>>
  /\ url = <<"location", "=", "a", "%2B", "&", "minPrice", "=", "1", "0", "&",
             "maxPrice", "=", "1", "0", "&", "bedrooms", "=", "6", "&",
             "showAllStatuses", "=", "true">>
  /\ filters = lastApplied[1]

\* C5: when the filter state holds a bathroom minimum greater than zero, every
\* visible property has at least that many bathrooms.
C5_BathroomMinimum ==
  filters.bathrooms > 0 =>
    \A k \in 1..Len(visible) : visible[k].bathrooms >= filters.bathrooms

(***************************************************************************)
(* The listings page: views and selection                                  *)
(***************************************************************************)
\* one property with coordinates and one without
ViewCatalog == {P1, P3}

ViewIds == {p.id : p \in ViewCatalog}

\* the query strings the page is opened with or history navigation leads to
ViewQueries == {<<>>,
                <<"view", "=", "map", "&", "selected", "=", "1">>,
                <<"view", "=", "split">>}

ViewModes == {"list", "map"}

ModalSteps == {-1, 1}

InitView ==
  /\ \E props \in Lists(ViewCatalog), query \in ViewQueries, mobile \in BOOLEAN :
       PageIs(props, Mount(props, query, mobile))
  /\ ApiIdle

\* what the user does inside the page, and what the router and the map answer
UiStep ==
  \/ DesktopMapButton
  \/ \E mode \in ViewModes : handleSetViewMode(mode)
  \/ \E propertyId \in ViewIds : handlePropertySelect(propertyId)
  \/ \E propertyId \in ViewIds : handleCardClick(propertyId)
  \/ CloseModal
  \/ EscapeKey
  \/ \E step \in ModalSteps : ModalStep(step)
  \/ MapLoad
  \/ \E text \in LocationTexts : handleLocationChange(text)
  \/ handleSubmit
  \/ handleOpenMobileDrawer
  \/ handleMobileDrawerClose
  \/ NavResolve

\* the view controls, markers and cards, the location filter of both layouts,
\* history navigation and resizing
NextView ==
  \/ UiStep
  \/ \E query \in ViewQueries : HistoryChange(query)
  \/ Resize

SpecView == InitView /\ [][NextView]_vars

\* the branches whose cards carry the ring of the selected property
CardsWithRing == {"split", "mobileList"}

C8_LocationForcesSplitView ==
  (~isMobile /\ Mounted(visible) /\ hasLocation(filters)) =>
    /\ Branch = "split"
    /\ HasMap(Branch)

\* the map-only view was chosen before the location was typed
C8_Witness ==
  /\ ~isMobile
  /\ Mounted(visible)
  /\ hasLocation(filters)
  /\ showMapOnly
  /\ ~forceSplitView
  /\ Branch = "split"

\* the list presentation: the desktop grid or the mobile list
ListShown == Mounted(visible) /\ Branch \in {"grid", "mobileList"}

\* a map presentation
MapShown == Mounted(visible) /\ HasMap(Branch)

CanShowList1 == ListShown \/ ENABLED (UiStep /\ ListShown')

CanShowList2 == ListShown \/ ENABLED (UiStep /\ CanShowList1')

CanShowList3 == ListShown \/ ENABLED (UiStep /\ CanShowList2')

CanShowMap1 == MapShown \/ ENABLED (UiStep /\ MapShown')

CanShowMap2 == MapShown \/ ENABLED (UiStep /\ CanShowMap1')

CanShowMap3 == MapShown \/ ENABLED (UiStep /\ CanShowMap2')

\* C9: from every view state of a rendered PropertyListings, on mobile and on
\* desktop, some sequence of user-interface actions leads to the list (grid)
\* presentation and some sequence leads to a map presentation.
C9_ToggleBothWays == Mounted(visible) => CanShowList3 /\ CanShowMap3

\* the desktop layout after the Map button, a marker or a card set showMapOnly
\* or forceSplitView
DesktopMapChosen == ~isMobile /\ (showMapOnly \/ forceSplitView)

\* why C9 fails: a map presentation can be reached from every view state, and
\* the list from every view state but those of DesktopMapChosen, which show no
\* list and which no user-interface action leaves except by emptying the page
C9_DesktopMapIsOneWay ==
  /\ [](Mounted(visible) => CanShowMap3)
  /\ [](Mounted(visible) /\ ~DesktopMapChosen => CanShowList3)
  /\ [](Mounted(visible) /\ DesktopMapChosen => ~ListShown)
  /\ [][(UiStep /\ (~Mounted(visible) \/ DesktopMapChosen))
          => (~Mounted(visible') \/ DesktopMapChosen')]_vars

(***************************************************************************)
(* /api/properties/[id]: PATCH and DELETE, as the dashboard and the edit   *)
(* page call them                                                          *)
(***************************************************************************)
\* the agent id of the session the request comes from, 0 when there is none
\* (the handlers of this route never ask for it)
Caller ==
  IF isLoggedIn(cookieJar) /\ ~NoAgentId(getAgentId(cookieJar))
  THEN getAgentId(cookieJar).n ELSE 0

\* what the catch of the route answers when prisma throws: 404 when the
\* message includes 'Record not found', else 500
PropertyCatchStatus == {404, 500}

\* the invocation of a handler of /api/properties/[id] on the row it addresses
PropertyRequest(method, id, body) ==
  LET propertyId == parseInt(id)
      hit == ~propertyId.nan /\ propertyId.n \in DOMAIN db
  IN  [Request(method, id, body)
         EXCEPT !.agentId = Caller, !.found = hit,
                !.owner = IF hit THEN db[propertyId.n].agentId ELSE 0]

\* PATCH /api/properties/[id]: prisma.property.update({where: {id}, data: body})
PropertyPATCH(id, body) ==
  /\ LET r == PropertyRequest("PATCH", id, body)
     IN  IF r.found
         THEN /\ db' = [db EXCEPT ![parseInt(id).n] =
                          [@ EXCEPT ![body.field] = body.value]]
              /\ lastResponse' = Response([Respond(r, 200, "") EXCEPT !.wrote = TRUE])
         ELSE /\ db' = db
              /\ \E status \in PropertyCatchStatus :
                   lastResponse' =
                     Response(Respond(r, status,
                                      IF status = 404 THEN "Property not found"
                                      ELSE "Failed to update property"))
  /\ UNCHANGED <<hasDocument, cookieJar, requests, pageVars, siteVars>>

\* DELETE /api/properties/[id]: prisma.property.delete({where: {id}}) and the
\* answer of the handler
DeleteProperty(id) ==
  LET r == PropertyRequest("DELETE", id, [field |-> "title", value |-> 0])
  IN  IF r.found
      THEN \E onDelete \in OnDeleteModes :
             IF Restricted(parseInt(id).n, onDelete)
             THEN /\ db' = db
                  /\ inquiries' = inquiries
                  /\ lastResponse' =
                       Response(Respond(r, 500, "Failed to delete property"))
             ELSE /\ db' = [n \in DOMAIN db \ {parseInt(id).n} |-> db[n]]
                  /\ inquiries' = InquiriesWithout(parseInt(id).n)
                  /\ lastResponse' =
                       Response([Respond(r, 204, "") EXCEPT !.wrote = TRUE])
      ELSE /\ db' = db
           /\ inquiries' = inquiries
           /\ \E status \in PropertyCatchStatus :
                lastResponse' =
                  Response(Respond(r, status,
                                   IF status = 404 THEN "Property not found"
                                   ELSE "Failed to delete property"))

\* DELETE /api/properties/[id]
PropertyDELETE(id) ==
  /\ DeleteProperty(id)
  /\ UNCHANGED <<hasDocument, cookieJar, requests, pageVars, inquiryRequests,
                 inquiryResponse, authVars, formVars, dashboardVars>>

\* the sessions the requests of this route are sent from
PropertyLogins == {<<<<"A">>, 1>>, <<<<"A">>, 2>>}

\* every handler that updates or deletes a property: the dashboard's delete
\* button sends DELETE /api/properties/${id} and the edit page's form sends
\* PATCH /api/properties/${id}, for the ids of the properties they show
NextPropertyApi ==
  \/ \E l \in PropertyLogins : login(l[1], l[2])
  \/ logout
  \/ \E id \in RequestIds, body \in RequestBodies : PropertyPATCH(id, body)
  \/ \E id \in RequestIds : PropertyDELETE(id)
  \/ \E id \in RequestIds : ReceiveRequest("DELETE", id, [field |-> "title", value |-> 0])
  \/ \E r \in BagToSet(requests) : FindUnique(r)
  \/ \E r \in BagToSet(requests) : WriteProperty(r)
  \/ \E r \in BagToSet(requests) : DatabaseError(r)

SpecPropertyApi == InitApi /\ [][NextPropertyApi]_vars

\* C11: through every handler that updates or deletes a property, a request
\* of a caller who is not logged in or does not own the property never changes
\* or removes it: every change of the database is the write of a logged-in
\* caller on a property of that caller.
C11_WritesOnlyByOwner ==
  [][db' # db => /\ lastResponse'.wrote
                 /\ lastResponse'.agentId # 0
                 /\ lastResponse'.owner = lastResponse'.agentId]_vars

(***************************************************************************)
(* /api/inquiries: POST and GET                                            *)
(***************************************************************************)
MaxInquiries == 2

\* an answer of /api/inquiries: the propertyId asked for, the agent id read
\* from the cookie, the inquiry stored and the inquiries returned
InquiryAnswer(method, status, message, propertyId, agentId, stored, list) ==
  [method |-> method, status |-> status, error |-> message,
   propertyId |-> propertyId, agentId |-> agentId, stored |-> stored,
   list |-> list]

\* requiredFields.filter(field => !body[field]).length > 0, with name standing
\* for name, email and message
MissingFields(body) == body.propertyId = 0 \/ body.name = <<>>

\* the inquiry table accepts a row with no property behind it
ForeignKeyHolds_Unchecked(propertyId) == TRUE

\* Inquiry.propertyId refers to a row of Property: prisma.inquiry.create
\* rejects when there is none
ForeignKeyHolds(propertyId) == propertyId \in DOMAIN db

\* the id the table gives the next row
NextInquiryId ==
  IF inquiries = {} THEN 1
  ELSE 1 + CHOOSE n \in {q.id : q \in inquiries} :
             \A q \in inquiries : q.id <= n

\* POST /api/inquiries arrives and runs to its first await on the database
InquiryPOST(body) ==
  /\ Cardinality(inquiries) + BagCardinality(inquiryRequests) < MaxInquiries
  /\ BagCardinality(inquiryRequests) < MaxRequests
  /\ IF MissingFields(body)
     THEN /\ inquiryRequests' = inquiryRequests
          /\ inquiryResponse' =
               InquiryAnswer("POST", 400, "Missing required fields",
                             body.propertyId, 0, {}, {})
     ELSE /\ inquiryRequests' =
               inquiryRequests (+) SetToBag({[propertyId |-> body.propertyId,
                                              pc |-> "find"]})
          /\ inquiryResponse' = inquiryResponse
  /\ UNCHANGED <<inquiries, apiVars, pageVars, authVars, formVars, dashboardVars>>

\* prisma.property.findUnique resolves: 404 when there is no such property
InquiryFindUnique(r) ==
  /\ BagIn(r, inquiryRequests)
  /\ r.pc = "find"
  /\ IF r.propertyId \notin DOMAIN db
     THEN /\ inquiryRequests' = inquiryRequests (-) SetToBag({r})
          /\ inquiryResponse' =
               InquiryAnswer("POST", 404, "Property not found", r.propertyId,
                             0, {}, {})
     ELSE /\ inquiryRequests' =
               (inquiryRequests (-) SetToBag({r}))
                 (+) SetToBag({[r EXCEPT !.pc = "create"]})
          /\ inquiryResponse' = inquiryResponse
  /\ UNCHANGED <<inquiries, apiVars, pageVars, authVars, formVars, dashboardVars>>

\* prisma.inquiry.create resolves with the row stored, or rejects
InquiryCreate(r) ==
  /\ BagIn(r, inquiryRequests)
  /\ r.pc = "create"
  /\ inquiryRequests' = inquiryRequests (-) SetToBag({r})
  /\ IF ForeignKeyHolds(r.propertyId)
     THEN LET inquiry == [id |-> NextInquiryId, propertyId |-> r.propertyId]
          IN  /\ inquiries' = inquiries \cup {inquiry}
              /\ inquiryResponse' =
                   InquiryAnswer("POST", 201, "", r.propertyId, 0, {inquiry}, {})
     ELSE /\ inquiries' = inquiries
          /\ inquiryResponse' =
               InquiryAnswer("POST", 500, "Failed to create inquiry",
                             r.propertyId, 0, {}, {})
  /\ UNCHANGED <<apiVars, pageVars, authVars, formVars, dashboardVars>>

\* the database call awaited rejects: the catch answers 500
InquiryError(r) ==
  /\ BagIn(r, inquiryRequests)
  /\ inquiryRequests' = inquiryRequests (-) SetToBag({r})
  /\ inquiryResponse' =
       InquiryAnswer("POST", 500, "Failed to create inquiry", r.propertyId,
                     0, {}, {})
  /\ UNCHANGED <<inquiries, apiVars, pageVars, authVars, formVars, dashboardVars>>

\* the where clause of findMany without the agent's filter
InquiryWhere_AnyAgent(q, propertyId, agentId) ==
  propertyId = <<>> \/ q.propertyId = parseInt(propertyId).n

\* where: {propertyId: parseInt(propertyId), property: {agentId}}, each part
\* present when its value is
InquiryWhere(q, propertyId, agentId) ==
  /\ propertyId = <<>> \/ q.propertyId = parseInt(propertyId).n
  /\ agentId.null \/ (q.propertyId \in DOMAIN db /\ db[q.propertyId].agentId = agentId.n)

\* GET /api/inquiries?propertyId=...: findMany with include: {property: true}
InquiryGET(propertyId) ==
  /\ IF ~isLoggedIn(cookieJar)
     THEN inquiryResponse' =
            InquiryAnswer("GET", 401, "Unauthorized", 0, 0, {}, {})
     ELSE LET agentId == getAgentId(cookieJar)
              asked == IF propertyId = <<>> THEN 0 ELSE parseInt(propertyId).n
          IN  IF (propertyId # <<>> /\ parseInt(propertyId).nan) \/ agentId.nan
              THEN inquiryResponse' =
                     InquiryAnswer("GET", 500, "Failed to fetch inquiries",
                                   asked, agentId.n, {}, {})
              ELSE inquiryResponse' =
                     InquiryAnswer("GET", 200, "", asked, agentId.n, {},
                       {[id |-> q.id, propertyId |-> q.propertyId,
                         property |-> db[q.propertyId]] :
                          q \in {i \in inquiries :
                                   InquiryWhere(i, propertyId, agentId)}})
  /\ UNCHANGED <<inquiries, inquiryRequests, apiVars, pageVars, authVars, formVars, dashboardVars>>

\* what visitors send: a complete inquiry for property 1, 2 or 3, one with no
\* name and one with no propertyId
InquiryBodies ==
  {[propertyId |-> n, name |-> <<"v">>] : n \in 0..3}
    \cup {[propertyId |-> 1, name |-> <<>>]}

\* the propertyId parameter of GET
InquiryQueries == {<<>>, <<"1">>, <<"2">>, <<"x">>}

\* property 1 of agent 1, property 2 of agent 2
InquiryDb == [n \in {1, 2} |-> [agentId |-> n, title |-> 0]]

InitInquiry ==
  /\ PageIdle
  /\ SiteIdle
  /\ hasDocument \in BOOLEAN
  /\ cookieJar = NoCookies
  /\ db = InquiryDb
  /\ requests = EmptyBag
  /\ lastResponse = NoResponse

\* inquiries are sent and read while agents log in and out and properties
\* are deleted
NextInquiry ==
  \/ \E l \in PropertyLogins : login(l[1], l[2])
  \/ logout
  \/ \E body \in InquiryBodies : InquiryPOST(body)
  \/ \E r \in BagToSet(inquiryRequests) : InquiryFindUnique(r)
  \/ \E r \in BagToSet(inquiryRequests) : InquiryCreate(r)
  \/ \E r \in BagToSet(inquiryRequests) : InquiryError(r)
  \/ \E propertyId \in InquiryQueries : InquiryGET(propertyId)
  \/ \E id \in {<<"1">>, <<"2">>} : PropertyDELETE(id)

SpecInquiry == InitInquiry /\ [][NextInquiry]_vars

C14_InquiriesOfOwnProperties ==
  /\ [][\A propertyId \in InquiryQueries :
          InquiryGET(propertyId)
            => /\ ~isLoggedIn(cookieJar)
                    => /\ inquiryResponse'.status = 401
                       /\ inquiryResponse'.error = "Unauthorized"
               /\ inquiryResponse'.status \in {401, 500}
                    => inquiryResponse'.list = {}
               /\ \A i \in inquiryResponse'.list :
                    /\ [id |-> i.id, propertyId |-> i.propertyId] \in inquiries
                    /\ i.property = db[i.propertyId]
                    /\ i.property.agentId = Caller
                    /\ propertyId # <<>> => i.propertyId = parseInt(propertyId).n]_vars
  /\ [](inquiryResponse.method = "GET" =>
          \A i \in inquiryResponse.list :
            i.property.agentId = inquiryResponse.agentId)

\* agent 1 asked for the inquiries and got those of property 1, while an
\* inquiry for agent 2's property is stored too
C14_Witness ==
  /\ inquiryResponse.method = "GET"
  /\ inquiryResponse.status = 200
  /\ inquiryResponse.agentId = 1
  /\ \E i \in inquiryResponse.list : i.propertyId = 1
  /\ \E q \in inquiries : q.propertyId = 2

(***************************************************************************)
(* POST /api/agent/properties and POST /api/properties                     *)
(***************************************************************************)
MaxRows == 3

\* the id the table gives the next property
NextPropertyId ==
  IF DOMAIN db = {} THEN 1
  ELSE 1 + CHOOSE n \in DOMAIN db : \A m \in DOMAIN db : m <= n

\* requiredFields.filter(field => !body[field]).length > 0, with title standing
\* for title, price, address, bedrooms, bathrooms and description
MissingPropertyFields(body) == body.title = 0

\* prisma.property.create({data: {...body, agentId: Number(agentId)}}), answered 201
CreateProperty(body, agentId) ==
  LET row == [agentId |-> agentId, title |-> body.title]
  IN  /\ db' = [n \in DOMAIN db \cup {NextPropertyId} |->
                  IF n = NextPropertyId THEN row ELSE db[n]]
      /\ lastResponse' =
           Response([Request("POST", <<>>, [field |-> "title", value |-> body.title])
                       EXCEPT !.pc = "done", !.status = 201, !.wrote = TRUE,
                              !.agentId = Caller, !.owner = row.agentId])

\* an answer of POST that creates nothing
RefuseProperty(body, status, message) ==
  /\ db' = db
  /\ lastResponse' =
       Response([Respond(Request("POST", <<>>,
                                 [field |-> "title", value |-> body.title]),
                         status, message)
                   EXCEPT !.agentId = Caller])

\* POST /api/agent/properties: const agentId = body.agentId
AgentPropertiesPOST(body) ==
  /\ Cardinality(DOMAIN db) < MaxRows
  /\ IF body.agentId = 0 THEN RefuseProperty(body, 401, "Unauthorized")
     ELSE IF MissingPropertyFields(body)
     THEN RefuseProperty(body, 400, "Missing required fields")
     ELSE CreateProperty(body, body.agentId)
  /\ UNCHANGED <<hasDocument, cookieJar, requests, pageVars, siteVars>>

\* POST /api/properties, which the new-property page sends with the agent id it
\* looked up by name: agentId: Number(body.agentId)
PropertiesPOST(body) ==
  /\ Cardinality(DOMAIN db) < MaxRows
  /\ IF MissingPropertyFields(body)
     THEN RefuseProperty(body, 400, "Missing required fields")
     ELSE IF body.agentId = 0 THEN RefuseProperty(body, 400, "Missing agentId")
     ELSE CreateProperty(body, body.agentId)
  /\ UNCHANGED <<hasDocument, cookieJar, requests, pageVars, siteVars>>

\* what clients post: with or without the required fields, with no agentId or
\* the id of agent 1 or 2
CreateBodies == {[title |-> t, agentId |-> a] : t \in {0, 1}, a \in {0, 1, 2}}

\* properties are created while agents log in and out
NextCreate ==
  \/ \E l \in PropertyLogins : login(l[1], l[2])
  \/ logout
  \/ \E body \in CreateBodies : AgentPropertiesPOST(body)
  \/ \E body \in CreateBodies : PropertiesPOST(body)

SpecCreate == InitApi /\ [][NextCreate]_vars

\* C15: the agentId of a created property is set by the server from the
\* session, never from a value the client supplies: every property created
\* has the agent id of the logged-in caller.
C15_AgentIdFromSession ==
  [][\A n \in DOMAIN db' \ DOMAIN db :
       Caller # 0 /\ db'[n].agentId = Caller]_vars

(***************************************************************************)
(* The protected agent pages and AuthProvider                              *)
(***************************************************************************)
LoginPath == "/agent/login"

DashboardPath == "/agent/dashboard"

NewPropertyPath == "/agent/properties/new"

EditPropertyPath == "/agent/properties/1/edit"

ProtectedPaths == {DashboardPath, NewPropertyPath, EditPropertyPath}

\* where the auth effect of the page at path sends the router, "" when it
\* does not call it
RedirectTarget(path) ==
  CASE path \in {DashboardPath, EditPropertyPath} ->
         IF hydrated /\ ~isAuthenticated THEN LoginPath ELSE ""
    [] path = NewPropertyPath ->
         IF ~isAuthenticated THEN LoginPath ELSE ""
    [] path = LoginPath ->
         IF hydrated /\ isAuthenticated THEN DashboardPath ELSE ""
    [] OTHER -> ""

\* the effect's dependencies that AuthProvider's state change touches: the
\* new-property page depends on isAuthenticated only
DepsChanged(path, wasAuthenticated, wasHydrated, nowAuthenticated, nowHydrated) ==
  \/ wasAuthenticated # nowAuthenticated
  \/ path # NewPropertyPath /\ wasHydrated # nowHydrated

\* the useEffect of the mounted page runs
PageEffect ==
  /\ effectPending
  /\ effectPending' = FALSE
  /\ LET to == RedirectTarget(pathname)
     IN  IF to = ""
         THEN UNCHANGED <<navigating, lastRedirect>>
         ELSE /\ navigating' = to
              /\ lastRedirect' = [to |-> to, from |-> pathname,
                                  hydrated |-> hydrated,
                                  stored |-> localStorageAgent]
  /\ UNCHANGED <<localStorageAgent, isAuthenticated, user, hydrated, pathname,
                 pageVars, apiVars, inquiryVars, formVars, dashboardVars>>

\* the useEffect of AuthProvider, which runs at mount after the effects of
\* the page it wraps
AuthProviderEffect ==
  /\ ~hydrated
  /\ ~effectPending
  /\ isAuthenticated' = (localStorageAgent # JsNull /\ localStorageAgent # <<>>)
  /\ user' = IF isAuthenticated' THEN localStorageAgent ELSE user
  /\ hydrated' = TRUE
  /\ effectPending' = DepsChanged(pathname, isAuthenticated, hydrated,
                                  isAuthenticated', TRUE)
  /\ UNCHANGED <<localStorageAgent, pathname, navigating, lastRedirect,
                 pageVars, apiVars, inquiryVars, formVars, dashboardVars>>

\* the navigation the router was asked for commits: the target page mounts
NavigationCommit ==
  /\ navigating # ""
  /\ pathname' = navigating
  /\ navigating' = ""
  /\ effectPending' = TRUE
  /\ UNCHANGED <<localStorageAgent, isAuthenticated, user, hydrated, lastRedirect,
                 pageVars, apiVars, inquiryVars, formVars, dashboardVars>>

\* the login form is submitted: login(name) of AuthProvider
AuthLogin(name) ==
  /\ pathname = LoginPath
  /\ hydrated
  /\ user' = name
  /\ isAuthenticated' = TRUE
  /\ localStorageAgent' = name
  /\ effectPending' = (effectPending \/ ~isAuthenticated)
  /\ UNCHANGED <<hydrated, pathname, navigating, lastRedirect,
                 pageVars, apiVars, inquiryVars, formVars, dashboardVars>>

\* Sign out in the menu: logout() of AuthProvider
AuthLogout ==
  /\ isAuthenticated
  /\ user' = JsNull
  /\ isAuthenticated' = FALSE
  /\ localStorageAgent' = JsNull
  /\ effectPending' = TRUE
  /\ UNCHANGED <<hydrated, pathname, navigating, lastRedirect,
                 pageVars, apiVars, inquiryVars, formVars, dashboardVars>>

\* the browser loads path (address bar, reload): everything but localStorage
\* starts afresh
LoadPage(path) ==
  /\ isAuthenticated' = FALSE
  /\ user' = JsNull
  /\ hydrated' = FALSE
  /\ pathname' = path
  /\ effectPending' = TRUE
  /\ navigating' = ""
  /\ lastRedirect' = NoRedirect
  /\ UNCHANGED <<localStorageAgent, pageVars, apiVars, inquiryVars, formVars, dashboardVars>>

\* Add property and Edit on the dashboard: router.push
DashboardLink(path) ==
  /\ pathname = DashboardPath
  /\ hydrated
  /\ isAuthenticated
  /\ navigating = ""
  /\ navigating' = path
  /\ UNCHANGED <<localStorageAgent, isAuthenticated, user, hydrated, pathname,
                 effectPending, lastRedirect, pageVars, apiVars, inquiryVars,
                 formVars, dashboardVars>>

AgentNames == {<<"A">>, <<"B">>}

AgentPaths == ProtectedPaths \cup {LoginPath}

InitAuth ==
  /\ PageIdle
  /\ InquiriesIdle
  /\ FormIdle
  /\ DashboardIdle
  /\ hasDocument = TRUE
  /\ cookieJar = NoCookies
  /\ db = SeedDb
  /\ requests = EmptyBag
  /\ lastResponse = NoResponse
  /\ \E path \in AgentPaths, stored \in AgentNames \cup {JsNull} :
       Loaded(path, stored)

NextAuth ==
  \/ PageEffect
  \/ AuthProviderEffect
  \/ NavigationCommit
  \/ \E name \in AgentNames : AuthLogin(name)
  \/ AuthLogout
  \/ \E path \in AgentPaths : LoadPage(path)
  \/ \E path \in {NewPropertyPath, EditPropertyPath} : DashboardLink(path)

SpecAuth == InitAuth /\ [][NextAuth]_vars

\* C16: the protected agent pages (dashboard, new property, edit property)
\* wait for the auth state to hydrate: no redirect to /agent/login is issued
\* while hydrated is false, so an agent whose login is stored in the browser
\* is never sent to the login page when a protected page is loaded.
C16_NoRedirectBeforeHydration ==
  lastRedirect.to = LoginPath
    => lastRedirect.hydrated /\ lastRedirect.stored = JsNull

(***************************************************************************)
(* The filter bar: Apply Filters, price inputs, the location input         *)
(***************************************************************************)
\* C17: on mobile, submitting the filter form (Apply Filters) calls
\* onFilterChange exactly once, with the drawer's draft filters, closes the
\* drawer and sets the view mode to 'list'.
C17_MobileApply ==
  [][isMobile /\ handleSubmit
       => /\ Len(lastCalls') = 1
          /\ lastCalls'[1] = filtersToQuery(mobileDraftFilters)
          /\ lastApplied' = <<mobileDraftFilters>>
          /\ ~isMobileFiltersOpen'
          /\ viewMode' = "list"
          /\ parentViewMode' = "list"]_vars

\* a draft made in the drawer has just been applied on mobile
C17_Witness ==
  /\ isMobile
  /\ Len(lastCalls) = 1
  /\ lastApplied # <<>>
  /\ lastApplied[1].location = <<"b">>
  /\ filters.location = <<"b">>
  /\ ~isMobileFiltersOpen
  /\ viewMode = "list"

\* what is typed into a price input: nothing, a number, letters, a negative
\* number, a number with a fraction
PriceEntries == {<<>>, <<"3">>, <<"x">>, <<"-", "5">>, <<"2", ".", "5">>}

\* the page is opened, and history moves, with no price or a negative one
PriceQueries == {<<>>, <<"minPrice", "=", "-", "5">>}

InitPrice ==
  /\ \E props \in Lists({P1, P2}), query \in PriceQueries, mobile \in BOOLEAN :
       PageIs(props, Mount(props, query, mobile))
  /\ ApiIdle

\* prices and locations typed on both layouts, the form submitted, navigations
\* that commit, history navigation
NextPrice ==
  \/ \E text \in PriceEntries : handleMinPriceChange(text)
  \/ \E text \in PriceEntries : handleMaxPriceChange(text)
  \/ \E text \in LocationTexts : handleLocationChange(text)
  \/ handleSubmit
  \/ handleOpenMobileDrawer
  \/ NavResolve
  \/ \E query \in PriceQueries : HistoryChange(query)

SpecPrice == InitPrice /\ [][NextPrice]_vars

\* C18: the price inputs only ever produce non-negative integer filter
\* values (an empty, non-numeric or negative entry yields 0), so that no
\* filter change submitted carries a negative price.
C18_NoNegativePriceSubmitted ==
  /\ \A text \in PriceEntries : PriceValue(text) \in Nat
  /\ \A i \in 1..Len(lastApplied) :
       lastApplied[i].minPrice >= 0 /\ lastApplied[i].maxPrice >= 0

\* the part of C18 that is about the inputs: the value a price input puts into
\* the filters it edits is a natural number, 0 for an empty, non-numeric or
\* negative entry
C18_PriceInputsNonNegative ==
  [][\A text \in PriceEntries :
       /\ handleMinPriceChange(text)
            => (IF isMobile THEN mobileDraftFilters' ELSE localFilters').minPrice
                 = PriceValue(text)
       /\ handleMaxPriceChange(text)
            => (IF isMobile THEN mobileDraftFilters' ELSE localFilters').maxPrice
                 = PriceValue(text)
       /\ PriceValue(text) \in Nat
       /\ text \in {<<>>, <<"x">>, <<"-", "5">>} => PriceValue(text) = 0]_vars

MaxBurst == 2

\* a keystroke in the location input while earlier navigations may still be
\* in flight
TypeLocation(text) ==
  /\ FilterInputsShown
  /\ Len(pending) < MaxBurst
  /\ ApplyEdit("location", text)

\* the texts of the location input while "bc" is typed and deleted again
BurstTexts == {<<>>, <<"b">>, <<"b", "c">>}

\* one keystroke adds or removes one character
OneKeystroke(old, new) ==
  \/ Len(new) = Len(old) + 1 /\ SubSeq(new, 1, Len(old)) = old
  \/ Len(old) = Len(new) + 1 /\ SubSeq(old, 1, Len(new)) = new

\* the text in the location input
LocationInput == IF isMobile THEN mobileDraftFilters.location ELSE localFilters.location

\* the user types into the location input
Keystroke == \E text \in BurstTexts : OneKeystroke(LocationInput, text) /\ TypeLocation(text)

InitTyping ==
  /\ \E props \in Lists({P1, P2, P3}), mobile \in BOOLEAN :
       PageIs(props, Mount(props, <<"showAllStatuses", "=", "true">>, mobile))
  /\ ApiIdle

\* typing on both layouts, navigations that commit or fail, the drawer opened
NextTyping ==
  \/ Keystroke
  \/ NavResolve
  \/ \E reason \in Reasons : NavReject(reason)
  \/ handleOpenMobileDrawer

SpecTyping == InitTyping /\ [][NextTyping]_vars

\* C19: the location search is debounced: a burst of k > 1 keystrokes in the
\* location input results in fewer than k filter-change / navigation calls,
\* the last of which carries the final text.  For k = 2: of two keystrokes
\* with no other event between them, at most one calls onFilterChange.
C19_LocationDebounced ==
  [][Keystroke /\ lastCalls # <<>> => lastCalls' = <<>>]_vars

(***************************************************************************)
(* PropertyForm                                                            *)
(***************************************************************************)
MaxSubmits == 1

TextFields == {"title", "description", "address"}

NumberFields == {"price", "bedrooms", "bathrooms"}

\* !formData.title?.trim()
Blank(text) == trim(text) = <<>>

\* !formData.price: 0 and NaN are falsy
Falsy(x) == x.nan \/ x.n = 0

\* the entries of newErrors that validateForm makes for formData fd
ValidationErrors(fd) ==
  LET failing ==
        {f \in TextFields : Blank(fd[f])}
          \cup (IF Falsy(fd.price) \/ fd.price.n <= 0 THEN {"price"} ELSE {})
          \cup (IF Falsy(fd.bedrooms) \/ fd.bedrooms.n < 0 THEN {"bedrooms"} ELSE {})
          \cup (IF Falsy(fd.bathrooms) \/ fd.bathrooms.n < 0 THEN {"bathrooms"} ELSE {})
  IN  [f \in failing |->
         CASE f = "title" -> "Title is required"
           [] f = "description" -> "Description is required"
           [] f = "price" -> "Price must be greater than 0"
           [] f = "bedrooms" -> "Number of bedrooms must be 0 or greater"
           [] f = "bathrooms" -> "Number of bathrooms must be 0 or greater"
           [] OTHER -> "Address is required"]

\* the form is submitted: validateForm, then onSubmit(formData) up to its await
PropertyFormSubmit ==
  /\ Len(onSubmitCalls) < MaxSubmits
  /\ announcement # "Saving property..."
  /\ errors' = ValidationErrors(formData)
  /\ IF DOMAIN errors' # {}
     THEN /\ announcement' = "Please fix the errors in the form"
          /\ onSubmitCalls' = onSubmitCalls
     ELSE /\ announcement' = "Saving property..."
          /\ onSubmitCalls' = Append(onSubmitCalls, formData)
  /\ UNCHANGED <<formData, pageVars, apiVars, inquiryVars, authVars, dashboardVars>>

\* the promise of onSubmit resolves
OnSubmitResolve ==
  /\ announcement = "Saving property..."
  /\ announcement' = "Property saved successfully"
  /\ UNCHANGED <<formData, errors, onSubmitCalls, pageVars, apiVars, inquiryVars,
                 authVars, dashboardVars>>

\* the promise of onSubmit rejects with an Error: the message is shown
OnSubmitReject(message) ==
  /\ announcement = "Saving property..."
  /\ announcement' = "Error"
  /\ errors' = [f \in DOMAIN errors \cup {"submit"} |->
                  IF f = "submit" THEN message ELSE errors[f]]
  /\ UNCHANGED <<formData, onSubmitCalls, pageVars, apiVars, inquiryVars, authVars, dashboardVars>>

\* an input changes: numbers are read with Number(value), and the error of the
\* field is cleared
handleInputChange(name, value) ==
  /\ formData' = [formData EXCEPT ![name] =
                    IF name \in NumberFields THEN Number(value) ELSE value]
  /\ errors' = [f \in DOMAIN errors \ {name} |-> errors[f]]
  /\ UNCHANGED <<announcement, onSubmitCalls, pageVars, apiVars, inquiryVars,
                 authVars, dashboardVars>>

\* what is typed into the text inputs and into the number inputs
FormTexts == {<<>>, <<" ">>, <<"t">>}

FormNumbers == {<<"0">>, <<"2">>, <<"-", "1">>, <<>>}

\* the property the edit page opens the form with: a studio
StudioForm ==
  [title |-> <<"t">>, description |-> <<"t">>, price |-> JsNum(2),
   bedrooms |-> JsNum(0), bathrooms |-> JsNum(2), address |-> <<"t">>]

InitForm ==
  /\ PageIdle
  /\ InquiriesIdle
  /\ Loaded("/", JsNull)
  /\ DashboardIdle
  /\ hasDocument = TRUE
  /\ cookieJar = NoCookies
  /\ db = SeedDb
  /\ requests = EmptyBag
  /\ lastResponse = NoResponse
  /\ formData \in {EmptyForm, StudioForm}
  /\ errors = NoErrors
  /\ announcement = ""
  /\ onSubmitCalls = <<>>

NextForm ==
  \/ \E name \in {"title", "address"}, value \in FormTexts :
       handleInputChange(name, value)
  \/ \E value \in {<<>>, <<"t">>} : handleInputChange("description", value)
  \/ \E name \in NumberFields, value \in FormNumbers : handleInputChange(name, value)
  \/ PropertyFormSubmit
  \/ OnSubmitResolve
  \/ OnSubmitReject("Failed to update property")

SpecForm == InitForm /\ [][NextForm]_vars

\* what C20 calls valid: title, description and address non-blank, price > 0,
\* bedrooms >= 0 and bathrooms >= 0
FormValid(fd) ==
  /\ \A f \in TextFields : trim(fd[f]) # <<>>
  /\ ~fd.price.nan /\ fd.price.n > 0
  /\ ~fd.bedrooms.nan /\ fd.bedrooms.n >= 0
  /\ ~fd.bathrooms.nan /\ fd.bathrooms.n >= 0

\* C20: PropertyForm calls onSubmit only when validation passes, and
\* validation passes exactly when title, description and address are
\* non-blank, price > 0, bedrooms >= 0 and bathrooms >= 0; otherwise onSubmit
\* is not called and the error messages of the failing fields are shown.
C20_SubmitExactlyWhenValid ==
  [][PropertyFormSubmit
       => IF FormValid(formData)
          THEN onSubmitCalls' = Append(onSubmitCalls, formData) /\ DOMAIN errors' = {}
          ELSE /\ onSubmitCalls' = onSubmitCalls
               /\ DOMAIN errors' # {}
               /\ \A f \in DOMAIN errors' : errors'[f] = ValidationErrors(formData)[f]]_vars

(***************************************************************************)
(* mockAuthUtils in the browser: what the getters return after login and   *)
(* logout                                                                  *)
(***************************************************************************)
\* what getAgentId returns when the cookie holds the decimal text of id
AgentIdOf(id) == [null |-> FALSE, nan |-> FALSE, n |-> id]

\* the getters after login(name, id)
LoggedInAs(jar, name, id) ==
  /\ isLoggedIn(jar)
  /\ getAgentName(jar) = name
  /\ getAgentId(jar) = AgentIdOf(id)

\* the getters after logout()
LoggedOut(jar) ==
  /\ ~isLoggedIn(jar)
  /\ getAgentName(jar) = JsNull
  /\ getAgentId(jar).null

\* C21: for any sequence of login(name, id) and logout() calls in the browser,
\* isLoggedIn() is true exactly when the most recent call was a login, and then
\* getAgentName() and getAgentId() return that call's name and id; after
\* logout() they return null, null and false.  Only login and logout change
\* the cookies, so what holds right after a call holds until the next call.
C21_LoginState ==
  /\ [][\A l \in Logins : hasDocument /\ login(l[1], l[2])
          => LoggedInAs(cookieJar', l[1], l[2])]_vars
  /\ [][hasDocument /\ logout => LoggedOut(cookieJar')]_vars
  /\ [][cookieJar' # cookieJar
          => logout \/ \E l \in Logins : login(l[1], l[2])]_vars

\* the same for the logins that carry a name
C21_NamedLoginState ==
  /\ [][\A l \in Logins : hasDocument /\ login(l[1], l[2]) /\ l[1] # <<>>
          => LoggedInAs(cookieJar', l[1], l[2])]_vars
  /\ [][hasDocument /\ logout => LoggedOut(cookieJar')]_vars
  /\ [][cookieJar' # cookieJar
          => logout \/ \E l \in Logins : login(l[1], l[2])]_vars

(***************************************************************************)
(* The listings page: view and selection in the URL                        *)
(***************************************************************************)
\* the value the 'view' parameter mirrors
ViewParam(split, mapOnly) ==
  IF split THEN <<"split">> ELSE IF mapOnly THEN <<"map">> ELSE JsNull

\* the value the 'selected' parameter mirrors: the id when a property is
\* selected (undefined, NaN and 0 select nothing)
SelectedParam(sel) == IF Truthy(sel) THEN String(sel.n) ELSE JsNull

\* the page opened at a URL, then view, selection and filter actions only: no
\* history navigation and no resizing
SpecMirror == InitView /\ [][UiStep]_vars

\* no router.replace is in flight and PropertyListings is rendered
AtRest == pending = <<>> /\ Mounted(visible)

\* C22: the view choice and the selection are mirrored in the URL: whenever the
\* page is at rest, the 'view' query parameter is 'split' iff forceSplitView,
\* 'map' iff showMapOnly without forceSplitView, and absent otherwise, and the
\* 'selected' parameter is selectedPropertyId when a property is selected and
\* absent otherwise.
C22_ViewAndSelectionInUrl ==
  AtRest =>
    /\ USPGet(URLSearchParams(url), "view") = ViewParam(forceSplitView, showMapOnly)
    /\ USPGet(URLSearchParams(url), "selected") = SelectedParam(selectedPropertyId)

(***************************************************************************)
(* The listings page on a phone: the filter drawer                         *)
(***************************************************************************)
\* an edit of one field of the drawer
DraftEdit ==
  \/ \E text \in LocationTexts : handleLocationChange(text)
  \/ \E text \in PriceTexts : handleMinPriceChange(text)
  \/ \E text \in PriceTexts : handleMaxPriceChange(text)
  \/ handleShowAllStatusesChange
  \/ \E bedrooms \in BedroomPicks : handleBedroomSelect(bedrooms)

\* the page as opened on a phone, with an active and a pending property
InitDrawer ==
  /\ PageIs(<<P1, P2>>, Mount(<<P1, P2>>, <<>>, TRUE))
  /\ ApiIdle

\* every control of the drawer, its three ways of closing, and the navigation
\* an Apply starts
NextDrawer ==
  \/ \E text \in LocationTexts : handleLocationChange(text)
  \/ \E text \in PriceTexts : handleMinPriceChange(text)
  \/ \E text \in PriceTexts : handleMaxPriceChange(text)
  \/ handleShowAllStatusesChange
  \/ ToggleBedroomDropdown
  \/ \E bedrooms \in BedroomPicks : handleBedroomSelect(bedrooms)
  \/ handleSubmit
  \/ handleOpenMobileDrawer
  \/ handleMobileDrawerClose
  \/ handleClickOutside
  \/ NavResolve

SpecDrawer == InitDrawer /\ [][NextDrawer]_vars

\* C23: on a mobile viewport, edits made in the filter drawer change only the
\* draft; the applied filters and the URL change only when Apply Filters is
\* pressed (and when the navigation it started commits); every time the drawer
\* is opened its fields show the currently applied filters; so edits abandoned
\* by closing the drawer (X button or click outside) are never applied by a
\* later action: whatever is in the draft while the drawer is open is the
\* applied filters of the moment it opened plus the edits made since.
C23_DraftOnlyUntilApply ==
  /\ [][isMobile /\ DraftEdit
          => /\ UNCHANGED <<filters, url, pending, visible, localFilters>>
             /\ lastCalls' = <<>>]_vars
  /\ [][isMobile /\ (filters' # filters \/ url' # url \/ pending' # pending
                     \/ lastCalls' # <<>>)
          => handleSubmit \/ NavResolve]_vars
  /\ [][isMobile /\ handleSubmit
          => isMobileFiltersOpen /\ lastApplied' = <<mobileDraftFilters>>]_vars
  /\ [][isMobile /\ ~isMobileFiltersOpen /\ isMobileFiltersOpen'
          => mobileDraftFilters' = filters /\ filters' = filters]_vars
  /\ [][isMobile /\ isMobileFiltersOpen /\ isMobileFiltersOpen'
            /\ mobileDraftFilters' # mobileDraftFilters
          => DraftEdit \/ mobileDraftFilters' = filters']_vars
  /\ [][isMobile /\ (handleMobileDrawerClose \/ handleClickOutside)
          => ~isMobileFiltersOpen' /\ UNCHANGED <<filters, url, pending>>
             /\ lastCalls' = <<>>]_vars

\* edits were abandoned by a click outside the drawer: the drawer is closed,
\* the draft still holds them, and nothing was applied or is in flight
C23_Witness ==
  /\ isMobile /\ Mounted(visible)
  /\ ~isMobileFiltersOpen
  /\ mobileDraftFilters # filters
  /\ mobileDraftFilters.minPrice = 3 /\ filters.minPrice = 0
  /\ pending = <<>> /\ lastCalls = <<>>

(***************************************************************************)
(* The listings page: the filter controls and the empty state              *)
(***************************************************************************)
\* the page opened with at least one property listed
InitListed == InitView /\ Mounted(visible)

SpecListed == InitListed /\ [][NextView]_vars

\* the filter inputs are on screen, or one user-interface step brings them up
\* (closing the modal, opening the drawer), or two do
CanEditFilters1 == FilterInputsShown \/ ENABLED (UiStep /\ FilterInputsShown')

CanEditFilters2 == FilterInputsShown \/ ENABLED (UiStep /\ CanEditFilters1')

\* ListingsContent shows 'No properties match your search criteria. Try
\* adjusting your filters.'
EmptyStateShown == ~Mounted(visible)

\* C24: the filter controls are available in every reachable state of the
\* listings page, including when the active filters match no property: the
\* filter inputs are shown, or the page's own controls bring them up within
\* two steps.
C24_FilterControlsAvailable == CanEditFilters2

\* the same wherever the empty state is not shown
C24_AvailableWithResults == EmptyStateShown \/ CanEditFilters2

(***************************************************************************)
(* The listings page: the selection and the visible list                   *)
(***************************************************************************)
\* C25: after any sequence of filter changes, selections and URL loads,
\* selectedPropertyId is either undefined or the id of a property in the
\* currently visible (filtered) list; a selection whose property is no longer
\* visible does not persist.
C25_SelectionIsVisible ==
  \/ selectedPropertyId = Undefined
  \/ selectedProperty(visible, selectedPropertyId) # {}

(***************************************************************************)
(* The agent dashboard: deleting properties                                *)
(***************************************************************************)
\* the handleDeleteProperty calls that may await their fetch at one time
MaxDeletes == 2

\* properties.filter(p => p.id !== id)
WithoutProperty(list, id) == SelectSeq(list, LAMBDA p : p # id)

\* a handleDeleteProperty call at its await: the id it deletes, the properties
\* its closure holds, where the request stands and the status it was answered
DeleteCall(id, closure) ==
  [id |-> id, closure |-> closure, pc |-> "sent", status |-> 0]

\* Dashboard's handleDeleteConfirm calls onDeleteProperty(id) for a card that is
\* displayed; window.confirm is answered OK, and handleDeleteProperty sends
\* DELETE /api/properties/${id} and awaits the fetch
handleDeleteProperty(id) ==
  /\ Cardinality(deletes) < MaxDeletes
  /\ \E i \in 1..Len(dashboardProperties) : dashboardProperties[i] = id
  /\ deletes' = deletes \cup {DeleteCall(id, dashboardProperties)}
  /\ UNCHANGED <<fetchedProperties, dashboardProperties, deleteSucceeded,
                 pageVars, apiVars, inquiryVars, authVars, formVars>>

\* the request of the call d is answered with the status the server gave
Answered(d, status) ==
  /\ deletes' = (deletes \ {d}) \cup {[d EXCEPT !.pc = "answered", !.status = status]}
  /\ deleteSucceeded' = IF status = 204 THEN deleteSucceeded \cup {d.id}
                        ELSE deleteSucceeded

\* the server handles the DELETE request of the call d
DeleteHandled(d) ==
  /\ d.pc = "sent"
  /\ DeleteProperty(String(d.id))
  /\ Answered(d, lastResponse'.status)
  /\ UNCHANGED <<fetchedProperties, dashboardProperties, hasDocument, cookieJar,
                 requests, pageVars, inquiryRequests, inquiryResponse, authVars,
                 formVars>>

\* prisma.property.delete throws for another reason than a missing record
\* (the database cannot be reached): the catch of the handler answers 500
DeleteThrows(d) ==
  /\ d.pc = "sent"
  /\ lastResponse' =
       Response(Respond(PropertyRequest("DELETE", String(d.id),
                                        [field |-> "title", value |-> 0]),
                        500, "Failed to delete property"))
  /\ Answered(d, 500)
  /\ UNCHANGED <<fetchedProperties, dashboardProperties, hasDocument, cookieJar,
                 db, requests, pageVars, inquiryVars, authVars, formVars>>

\* the fetch of the call d resolves, whatever the status, and the call goes on:
\* setProperties(properties.filter(p => p.id !== id)) with the properties of
\* its closure
FetchResolves(d) ==
  /\ d.pc = "answered"
  /\ dashboardProperties' = WithoutProperty(d.closure, d.id)
  /\ deletes' = deletes \ {d}
  /\ UNCHANGED <<fetchedProperties, deleteSucceeded, pageVars, apiVars,
                 inquiryVars, authVars, formVars>>

\* the fetch of the call d rejects (the request never reached the server): the
\* catch logs the error
FetchRejects(d) ==
  /\ d.pc = "sent"
  /\ deletes' = deletes \ {d}
  /\ UNCHANGED <<fetchedProperties, dashboardProperties, deleteSucceeded,
                 pageVars, apiVars, inquiryVars, authVars, formVars>>

\* three properties of agent 1
DashboardDb == [n \in {1, 2, 3} |-> [agentId |-> 1, title |-> 0]]

\* the dashboard of agent 1 after hydration, login and fetchProperties: the
\* cards of the agent's properties are displayed
InitDashboard ==
  /\ PageIdle
  /\ InquiriesIdle
  /\ FormIdle
  /\ hasDocument = TRUE
  /\ cookieJar = NoCookies
  /\ db = DashboardDb
  /\ requests = EmptyBag
  /\ lastResponse = NoResponse
  /\ localStorageAgent = <<"A">>
  /\ isAuthenticated = TRUE
  /\ user = <<"A">>
  /\ hydrated = TRUE
  /\ pathname = DashboardPath
  /\ effectPending = FALSE
  /\ navigating = ""
  /\ lastRedirect = NoRedirect
  /\ fetchedProperties = <<1, 2, 3>>
  /\ dashboardProperties = fetchedProperties
  /\ deletes = {}
  /\ deleteSucceeded = {}

NextDashboard ==
  \/ \E id \in DOMAIN DashboardDb : handleDeleteProperty(id)
  \/ \E d \in deletes : DeleteHandled(d)
  \/ \E d \in deletes : DeleteThrows(d)
  \/ \E d \in deletes : FetchResolves(d)
  \/ \E d \in deletes : FetchRejects(d)

SpecDashboard == InitDashboard /\ [][NextDashboard]_vars

\* the fetched list minus the properties in gone
Remaining(list, gone) == SelectSeq(list, LAMBDA p : p \notin gone)

\* C26: after any sequence of delete actions on the agent dashboard has
\* completed, the displayed property list equals the fetched list minus exactly
\* the properties whose DELETE request succeeded: a property whose delete
\* failed stays displayed, and two deletions started in quick succession leave
\* both properties removed.
C26_DisplayedIsFetchedMinusDeleted ==
  deletes = {} => dashboardProperties = Remaining(fetchedProperties, deleteSucceeded)

=============================================================================
